---- MODULE Spec2Model ----
(***************************************************************************)
(* HealthGuard-AI: the threshold alert evaluator (alertEngine /            *)
(* alertChecker), the rule-based risk scorer (riskEngine) and the pieces   *)
(* of simulator state they run next to.                                    *)
(*                                                                         *)
(* Numbers.  Vital values are JavaScript numbers with at most one decimal  *)
(* in every table of the source (100.4, 99.5, 97.0).  The model keeps      *)
(* every vital value, boundary and history value in TENTHS of the unit     *)
(* (heart_rate 155 is 1550, temperature 100.4 is 1004), so all comparisons *)
(* of the source are exact integer comparisons here.  Condition weights    *)
(* are kept in tenths as well (1.5 is 15).  The regression slope is kept    *)
(* as an exact quotient; the source computes it in IEEE doubles, whose      *)
(* rounding error (about 1e-14 here) is not modelled.  The histories of     *)
(* the model are chosen so that the double computation and the exact one    *)
(* give the same trend and the same penalty.                                *)
(*                                                                         *)
(* null / undefined.  The source tests `value == null`, which is true of   *)
(* both null and undefined.  A reading is a function whose DOMAIN is the   *)
(* set of fields that carry a number; a field outside the DOMAIN is the    *)
(* null / undefined field of the source.                                   *)
(***************************************************************************)
EXTENDS Integers, Sequences, FiniteSets, TLC

VARIABLES
    reading,            \* the vitals reading handed to the evaluator / scorer (vitalsReading, latestVitals)
    vitalsHistory,      \* the history argument of calculateRiskScore (rows, ascending by time)
    patientConditions,  \* the patientConditions argument of calculateRiskScore
    alertStore,         \* rows of the alerts table, in insertion order
    events,             \* Socket.io events emitted so far, in order
    aiCalls,            \* number of chatCompletion requests made by generateAIMessages
    pending,            \* checkVitalsAndAlert calls suspended at `await generateAIMessages`
    returns,            \* what the finished evaluator calls returned, in order of completion
    evalCount,          \* number of evaluator calls started
    nextId,             \* source of fresh ids (uuidv4)
    thrown,             \* number of evaluator calls that ended in a TypeError
    riskResult,         \* what the last calculateRiskScore call returned, or NoResult
    riskCalls,          \* number of calculateRiskScore calls made
    activeScenario,     \* vitalSimulator module state
    scenarioStep,       \* vitalSimulator module state
    weightResult,       \* what getConditionWeight returned per vital, or NoResult
    intervalId,         \* vitalSimulator module state: 0 is null, n > 0 the handle of the n-th setInterval
    simPatientId,       \* vitalSimulator module state `patientId`
    timers,             \* handles of the interval timers that are scheduled (setInterval without clearInterval)
    timerSeq,           \* number of setInterval calls made
    hasPatient,         \* whether the patients table has a row
    ticks,              \* simulator ticks suspended at `await checkVitalsAndAlert`
    tickCount,          \* number of simulator ticks started
    vitalsStore,        \* rows of the vitals table, in insertion order
    simResult,          \* what the last startSimulator / stopSimulator call returned
    readingsSinceSet,   \* observer: readings generated since setScenario last took effect
    devices,            \* rows of the connected_devices table, in insertion order
    deviceTimers,       \* setTimeout callbacks of the device routes that have not run yet
    devResult,          \* HTTP status of the last device / demo-step request
    clock,              \* whole seconds since the server started
    ackResult           \* what the last seed / acknowledge / unread-count request answered

vars == <<reading, vitalsHistory, patientConditions, alertStore, events, aiCalls,
          pending, returns, evalCount, nextId, thrown, riskResult, riskCalls,
          activeScenario, scenarioStep, weightResult,
          intervalId, simPatientId, timers, timerSeq, hasPatient, ticks, tickCount,
          vitalsStore, simResult, readingsSinceSet,
          devices, deviceTimers, devResult, clock, ackResult>>

evalVars == <<alertStore, events, aiCalls, pending, returns, evalCount, nextId, thrown>>
riskVars == <<riskResult, riskCalls>>
simVars == <<activeScenario, scenarioStep>>
argVars == <<reading, vitalsHistory, patientConditions>>
timerVars == <<intervalId, simPatientId, timers, timerSeq, simResult>>
tickVars == <<ticks, tickCount, vitalsStore>>
devVars == <<devices, deviceTimers, devResult, clock>>
otherVars == <<timerVars, tickVars, hasPatient, readingsSinceSet, devVars, ackResult>>

Null == "null"
NoResult == << >>

(***************************************************************************)
(* Bounds of the model.                                                    *)
(***************************************************************************)
MaxEvals == 2
MaxHist == 3
MaxConds == 3
MaxCalls == 2
MaxValue == 260
MaxTicks == 3
MaxStarts == 2
MaxRun == 8
MaxOverlap == 2
MaxDeep == 2
MaxClock == 6
MaxDevices == 3
MaxDevEvents == 3

(***************************************************************************)
(* The vital vocabulary.  Object.entries(THRESHOLDS) and                   *)
(* Object.keys(RISK_SCORING) iterate in this (insertion) order.            *)
(***************************************************************************)
SCORED_VITALS ==
    << "heart_rate", "blood_pressure_systolic", "blood_pressure_diastolic",
       "glucose", "oxygen_saturation", "temperature" >>

Vitals == { SCORED_VITALS[i] : i \in 1..Len(SCORED_VITALS) }

(***************************************************************************)
(* `if (value == null) continue;` - a field is used when it is neither     *)
(* null nor undefined; 0 is a value.                                       *)
(***************************************************************************)
PresentTruthy(r, v) == v \in DOMAIN r /\ r[v] # 0

Present(r, v) == v \in DOMAIN r

(***************************************************************************)
(* The reading itself may be null / undefined instead of an object.        *)
(* NullReading stands for that value: it has no vital field, so            *)
(* `latestVitals?.[vitalKey]` of the scorer is undefined for every vital,  *)
(* while the plain property access `vitalsReading[vitalType]` of the two   *)
(* evaluators is a TypeError.                                              *)
(***************************************************************************)
NullReading == [ isNull |-> TRUE ]

IsNull(r) == "isNull" \in DOMAIN r

(***************************************************************************)
(* alertEngine.js: THRESHOLDS (values in tenths), most severe first.       *)
(***************************************************************************)
Rule(d, b, t, ti) == [direction |-> d, value |-> b, type |-> t, title |-> ti]

THRESHOLDS ==
    [ heart_rate |->
        << Rule("above", 1500, "critical", "Critically High Heart Rate"),
           Rule("above", 1200, "warning", "Elevated Heart Rate"),
           Rule("below", 400, "critical", "Critically Low Heart Rate"),
           Rule("below", 500, "warning", "Low Heart Rate") >>,
      blood_pressure_systolic |->
        << Rule("above", 1600, "critical", "Critically High Systolic Blood Pressure"),
           Rule("above", 1400, "warning", "Elevated Systolic Blood Pressure") >>,
      blood_pressure_diastolic |->
        << Rule("above", 1000, "critical", "Critically High Diastolic Blood Pressure"),
           Rule("above", 900, "warning", "Elevated Diastolic Blood Pressure") >>,
      glucose |->
        << Rule("above", 2500, "critical", "Critically High Blood Glucose"),
           Rule("above", 2000, "warning", "Elevated Blood Glucose") >>,
      oxygen_saturation |->
        << Rule("below", 920, "critical", "Critically Low Oxygen Saturation"),
           Rule("below", 950, "warning", "Low Oxygen Saturation") >>,
      temperature |->
        << Rule("above", 1030, "critical", "Critically High Temperature"),
           Rule("above", 1004, "warning", "Elevated Temperature") >> ]

UNIT_MAP ==
    [ heart_rate |-> "BPM", blood_pressure_systolic |-> "mmHg",
      blood_pressure_diastolic |-> "mmHg", glucose |-> "mg/dL",
      oxygen_saturation |-> "%", temperature |-> "degF" ]

(***************************************************************************)
(* alertChecker.js: its own copy of the rule table and of the unit map.    *)
(***************************************************************************)
(* a copy of the table that has drifted from alertEngine's: the glucose    *)
(* warning starts at 180 instead of 200                                    *)
CheckerTHRESHOLDSDrifted ==
    [ THRESHOLDS EXCEPT !.glucose =
        << Rule("above", 2500, "critical", "Critically High Blood Glucose"),
           Rule("above", 1800, "warning", "Elevated Blood Glucose") >> ]
CheckerTHRESHOLDS ==
    [ heart_rate |->
        << Rule("above", 1500, "critical", "Critically High Heart Rate"),
           Rule("above", 1200, "warning", "Elevated Heart Rate"),
           Rule("below", 400, "critical", "Critically Low Heart Rate"),
           Rule("below", 500, "warning", "Low Heart Rate") >>,
      blood_pressure_systolic |->
        << Rule("above", 1600, "critical", "Critically High Systolic Blood Pressure"),
           Rule("above", 1400, "warning", "Elevated Systolic Blood Pressure") >>,
      blood_pressure_diastolic |->
        << Rule("above", 1000, "critical", "Critically High Diastolic Blood Pressure"),
           Rule("above", 900, "warning", "Elevated Diastolic Blood Pressure") >>,
      glucose |->
        << Rule("above", 2500, "critical", "Critically High Blood Glucose"),
           Rule("above", 2000, "warning", "Elevated Blood Glucose") >>,
      oxygen_saturation |->
        << Rule("below", 920, "critical", "Critically Low Oxygen Saturation"),
           Rule("below", 950, "warning", "Low Oxygen Saturation") >>,
      temperature |->
        << Rule("above", 1030, "critical", "Critically High Temperature"),
           Rule("above", 1004, "warning", "Elevated Temperature") >> ]

CheckerUNIT_MAP ==
    [ heart_rate |-> "bpm", blood_pressure_systolic |-> "mmHg",
      blood_pressure_diastolic |-> "mmHg", glucose |-> "mg/dL",
      oxygen_saturation |-> "%", temperature |-> "degF" ]

(***************************************************************************)
(* The comparison of one rule, and the inner `for (const rule of rules)`   *)
(* loop with its break: the index of the first rule that hits, 0 if none.  *)
(***************************************************************************)
HitInclusive(rule, value) ==
    \/ rule.direction = "above" /\ value >= rule.value
    \/ rule.direction = "below" /\ value <= rule.value

Hit(rule, value) ==
    \/ rule.direction = "above" /\ value > rule.value
    \/ rule.direction = "below" /\ value < rule.value

RECURSIVE FirstHitFrom(_, _, _)
FirstHitFrom(rules, value, i) ==
    IF i > Len(rules) THEN 0
    ELSE IF Hit(rules[i], value) THEN i
    ELSE FirstHitFrom(rules, value, i + 1)

RECURSIVE LastHitFrom(_, _, _)
LastHitFrom(rules, value, i) ==
    IF i > Len(rules) THEN 0
    ELSE LET later == LastHitFrom(rules, value, i + 1)
         IN IF later # 0 THEN later
            ELSE IF Hit(rules[i], value) THEN i ELSE 0

LastHit(rules, value) == LastHitFrom(rules, value, 1)

FirstHit(rules, value) == FirstHitFrom(rules, value, 1)

(***************************************************************************)
(* generateBasicMessage / generateMessage: the template                    *)
(*   `${title}: ${value}${unit} ${verb} the threshold of ${boundary}${unit}.` *)
(* kept as the tuple of its substituted parts.                             *)
(***************************************************************************)
generateBasicMessage(vitalType, actualValue, rule) ==
    << rule.title, actualValue, UNIT_MAP[vitalType],
       IF rule.direction = "above" THEN "exceeds" ELSE "is below",
       rule.value, UNIT_MAP[vitalType] >>

generateMessage(vitalType, actualValue, rule) ==
    << rule.title, actualValue, CheckerUNIT_MAP[vitalType],
       IF rule.direction = "above" THEN "exceeds" ELSE "is below",
       rule.value, CheckerUNIT_MAP[vitalType] >>

(***************************************************************************)
(* Step 1 of checkVitalsAndAlert: the `breached` list.  The outer loop     *)
(* visits the vitals in table order, skips a null value, and pushes the    *)
(* record of the first rule that hits.  uuidv4() is a fresh id: the k-th   *)
(* record pushed by a call that starts with id counter id0 gets id0 + k.   *)
(* created_at (a wall-clock string) is left out of the records.            *)
(***************************************************************************)
RECURSIVE BreachedFrom(_, _, _, _)
BreachedFrom(r, i, acc, id0) ==
    IF i > Len(SCORED_VITALS) THEN acc
    ELSE LET vitalType == SCORED_VITALS[i]
         IN IF ~Present(r, vitalType) THEN BreachedFrom(r, i + 1, acc, id0)
            ELSE LET value == r[vitalType]
                     rules == THRESHOLDS[vitalType]
                     k == FirstHit(rules, value)
                 IN IF k = 0 THEN BreachedFrom(r, i + 1, acc, id0)
                    ELSE BreachedFrom(r, i + 1, Append(acc,
                            [ id |-> id0 + Len(acc) + 1,
                              vital_type |-> vitalType,
                              vital_value |-> value,
                              threshold_value |-> rules[k].value,
                              type |-> rules[k].type,
                              title |-> rules[k].title,
                              message |-> generateBasicMessage(vitalType, value, rules[k]) ]),
                            id0)

Breached(r, id0) == BreachedFrom(r, 1, << >>, id0)

(***************************************************************************)
(* generateAIMessages, seen from its caller: it throws because the         *)
(* request failed ("throws") or because JSON.parse of the content failed   *)
(* ("unparsable"), returns {} (no content), or returns a map with an       *)
(* entry per listed vital.  In the last case the model lets the reply      *)
(* carry a message for every breached vital and an emergency_context for   *)
(* the critical ones, as the prompt asks.  The caller catches both throws  *)
(* and goes on with aiMap = {}.  Every finished call records the outcome   *)
(* of its AI request in the `ai` field of its entry in returns ("none"     *)
(* when no request was made).                                              *)
(***************************************************************************)
AIOutcomes == { "throws", "unparsable", "no_content", "messages" }

AiEntry(outcome, b) ==
    IF outcome = "messages"
    THEN [ ai_message |-> "ai_text",
           emergency_context |-> IF b.type = "critical" THEN "ai_context" ELSE Null ]
    ELSE [ ai_message |-> Null, emergency_context |-> Null ]

PatientId == "patient-1"

(***************************************************************************)
(* Step 3 of checkVitalsAndAlert: the alert built from a breached record.  *)
(***************************************************************************)
BuildAlert(b, ai) ==
    [ id |-> b.id,
      patient_id |-> PatientId,
      type |-> b.type,
      title |-> b.title,
      message |-> b.message,
      vital_type |-> b.vital_type,
      vital_value |-> b.vital_value,
      threshold_value |-> b.threshold_value,
      acknowledged |-> 0,
      ai_message |-> ai.ai_message,
      emergency_context |-> ai.emergency_context ]

BuildAlerts(breached, outcome) ==
    [ k \in 1..Len(breached) |-> BuildAlert(breached[k], AiEntry(outcome, breached[k])) ]

(***************************************************************************)
(* `if (io) io.emit('new-alert', { patientId, alert })`, once per alert;   *)
(* every caller passes the server's io object.                             *)
(***************************************************************************)
EmitNothing(alerts) == << >>

EmitNewAlerts(alerts) ==
    [ k \in 1..Len(alerts) |-> [ name |-> "new-alert", patientId |-> PatientId, alert |-> alerts[k] ] ]

(***************************************************************************)
(* checkVitalsAndAlert, up to its await.  The patient row always exists:   *)
(* no code path deletes a patient, and every caller takes the id from the  *)
(* patients table, so the `if (!patient) return []` guard never fires.     *)
(* With nothing breached the call returns [] at once; otherwise the AI     *)
(* request is sent and the call is suspended until it settles.  With a     *)
(* null reading the first pass of the loop throws a TypeError at           *)
(* `vitalsReading[vitalType]`: the promise of the call is rejected and     *)
(* nothing is returned.                                                    *)
(***************************************************************************)
CheckVitalsAndAlertStartNoEarlyReturn ==
    /\ evalCount < MaxEvals
    /\ evalCount' = evalCount + 1
    /\ IF IsNull(reading)
       THEN /\ thrown' = thrown + 1
            /\ UNCHANGED <<nextId, pending, aiCalls, returns>>
       ELSE LET breached == Breached(reading, nextId)
            IN /\ nextId' = nextId + Len(breached)
               /\ pending' = pending \cup { [ call |-> evalCount + 1, breached |-> breached ] }
               /\ aiCalls' = aiCalls + 1
               /\ UNCHANGED <<returns, thrown>>
    /\ UNCHANGED <<alertStore, events>>
    /\ UNCHANGED <<argVars, riskVars, simVars, weightResult, otherVars>>

CheckVitalsAndAlertStart ==
    /\ evalCount < MaxEvals
    /\ evalCount' = evalCount + 1
    /\ IF IsNull(reading)
       THEN /\ thrown' = thrown + 1
            /\ UNCHANGED <<nextId, pending, aiCalls, returns>>
       ELSE LET breached == Breached(reading, nextId)
            IN /\ nextId' = nextId + Len(breached)
               /\ UNCHANGED thrown
               /\ IF Len(breached) = 0
                  THEN /\ returns' = Append(returns, [ fn |-> "checkVitalsAndAlert",
                                                        ai |-> "none", alerts |-> << >> ])
                       /\ UNCHANGED <<pending, aiCalls>>
                  ELSE /\ pending' = pending \cup { [ call |-> evalCount + 1, breached |-> breached ] }
                       /\ aiCalls' = aiCalls + 1
                       /\ UNCHANGED returns
    /\ UNCHANGED <<alertStore, events>>
    /\ UNCHANGED <<argVars, riskVars, simVars, weightResult, otherVars>>

(***************************************************************************)
(* checkVitalsAndAlert, from the settled AI request to its return: every   *)
(* breached record is inserted and emitted, in order.                      *)
(***************************************************************************)
(* the same without the try / catch around `await generateAIMessages`: a   *)
(* throw of the AI step rejects the call                                   *)
CheckVitalsAndAlertFinishNoCatch ==
    \E p \in pending, outcome \in AIOutcomes :
        LET alerts == BuildAlerts(p.breached, outcome)
        IN /\ pending' = pending \ {p}
           /\ IF outcome \in { "throws", "unparsable" }
              THEN /\ thrown' = thrown + 1
                   /\ UNCHANGED <<alertStore, events, returns>>
              ELSE /\ alertStore' = alertStore \o alerts
                   /\ events' = events \o EmitNewAlerts(alerts)
                   /\ returns' = Append(returns, [ fn |-> "checkVitalsAndAlert",
                                                   ai |-> outcome, alerts |-> alerts ])
                   /\ UNCHANGED thrown
           /\ UNCHANGED <<aiCalls, evalCount, nextId>>
           /\ UNCHANGED <<argVars, riskVars, simVars, weightResult, otherVars>>

CheckVitalsAndAlertFinish ==
    \E p \in pending, outcome \in AIOutcomes :
        LET alerts == BuildAlerts(p.breached, outcome)
        IN /\ pending' = pending \ {p}
           /\ alertStore' = alertStore \o alerts
           /\ events' = events \o EmitNewAlerts(alerts)
           /\ returns' = Append(returns, [ fn |-> "checkVitalsAndAlert",
                                           ai |-> outcome, alerts |-> alerts ])
           /\ UNCHANGED <<aiCalls, evalCount, nextId, thrown>>
           /\ UNCHANGED <<argVars, riskVars, simVars, weightResult, otherVars>>

(***************************************************************************)
(* alertChecker.checkVitals: the synchronous evaluator.  It inserts each   *)
(* alert as it finds it and returns the records; it has no AI step and no  *)
(* socket.  The stored row has NULL ai_message / emergency_context.  With  *)
(* a null reading `reading[vitalType]` throws a TypeError.                 *)
(***************************************************************************)
RECURSIVE CheckerAlertsFrom(_, _, _, _)
CheckerAlertsFrom(r, i, acc, id0) ==
    IF i > Len(SCORED_VITALS) THEN acc
    ELSE LET vitalType == SCORED_VITALS[i]
         IN IF ~Present(r, vitalType) THEN CheckerAlertsFrom(r, i + 1, acc, id0)
            ELSE LET value == r[vitalType]
                     rules == CheckerTHRESHOLDS[vitalType]
                     k == FirstHit(rules, value)
                 IN IF k = 0 THEN CheckerAlertsFrom(r, i + 1, acc, id0)
                    ELSE CheckerAlertsFrom(r, i + 1, Append(acc,
                            [ id |-> id0 + Len(acc) + 1,
                              patient_id |-> PatientId,
                              type |-> rules[k].type,
                              title |-> rules[k].title,
                              message |-> generateMessage(vitalType, value, rules[k]),
                              vital_type |-> vitalType,
                              vital_value |-> value,
                              threshold_value |-> rules[k].value,
                              acknowledged |-> 0 ]),
                            id0)

StoredRow(a) ==
    [ id |-> a.id, patient_id |-> a.patient_id, type |-> a.type, title |-> a.title,
      message |-> a.message, vital_type |-> a.vital_type, vital_value |-> a.vital_value,
      threshold_value |-> a.threshold_value, acknowledged |-> 0,
      ai_message |-> Null, emergency_context |-> Null ]

CheckVitals ==
    /\ evalCount < MaxEvals
    /\ evalCount' = evalCount + 1
    /\ IF IsNull(reading)
       THEN /\ thrown' = thrown + 1
            /\ UNCHANGED <<nextId, alertStore, returns>>
       ELSE LET alerts == CheckerAlertsFrom(reading, 1, << >>, nextId)
            IN /\ nextId' = nextId + Len(alerts)
               /\ alertStore' = alertStore \o [ k \in 1..Len(alerts) |-> StoredRow(alerts[k]) ]
               /\ returns' = Append(returns, [ fn |-> "checkVitals", ai |-> "none", alerts |-> alerts ])
               /\ UNCHANGED thrown
    /\ UNCHANGED <<events, aiCalls, pending>>
    /\ UNCHANGED <<argVars, riskVars, simVars, weightResult, otherVars>>

(***************************************************************************)
(* riskEngine.js: RISK_SCORING.  One score(v) and one explain(v) per       *)
(* vital, the conditions tried in the order of the source.                 *)
(***************************************************************************)
Zone(p, z) == [ points |-> p, zone |-> z ]

(* the normal band without its two end points *)
ScoreHeartRateExclusive(v) ==
    IF v > 600 /\ v < 1000 THEN Zone(0, "normal")
    ELSE IF (v >= 500 /\ v <= 600) \/ (v >= 1000 /\ v <= 1200) THEN Zone(10, "warning")
    ELSE Zone(22, "critical")

ScoreHeartRate(v) ==
    IF v >= 600 /\ v <= 1000 THEN Zone(0, "normal")
    ELSE IF (v >= 500 /\ v < 600) \/ (v > 1000 /\ v <= 1200) THEN Zone(10, "warning")
    ELSE Zone(22, "critical")

ScoreSystolic(v) ==
    IF v < 1200 THEN Zone(0, "normal")
    ELSE IF v <= 1290 THEN Zone(8, "elevated")
    ELSE IF v <= 1390 THEN Zone(14, "high")
    ELSE IF v <= 1790 THEN Zone(18, "high")
    ELSE Zone(25, "crisis")

(* 120 itself taken into the band below the crisis band *)
ScoreDiastolicCrisisAbove(v) ==
    IF v < 800 THEN Zone(0, "normal")
    ELSE IF v <= 890 THEN Zone(10, "high")
    ELSE IF v <= 1200 THEN Zone(16, "high")
    ELSE Zone(25, "crisis")

ScoreDiastolic(v) ==
    IF v < 800 THEN Zone(0, "normal")
    ELSE IF v <= 890 THEN Zone(10, "high")
    ELSE IF v < 1200 THEN Zone(16, "high")
    ELSE Zone(25, "crisis")

ScoreGlucose(v) ==
    IF v >= 700 /\ v <= 1400 THEN Zone(0, "normal")
    ELSE IF v > 1400 /\ v <= 2000 THEN Zone(10, "high")
    ELSE IF v > 2000 THEN Zone(22, "critical")
    ELSE IF v < 700 /\ v >= 550 THEN Zone(12, "warning")
    ELSE Zone(25, "critical")

ScoreOxygenSwapped(v) ==
    IF v >= 950 THEN Zone(12, "normal")
    ELSE IF v >= 900 THEN Zone(0, "low")
    ELSE Zone(25, "critical")

ScoreOxygen(v) ==
    IF v >= 950 THEN Zone(0, "normal")
    ELSE IF v >= 900 THEN Zone(12, "low")
    ELSE Zone(25, "critical")

(* the normal band stretched to 100.5, past the evaluator's 100.4 *)
ScoreTemperatureNormalTo1005(v) ==
    IF v >= 970 /\ v <= 1005 THEN Zone(0, "normal")
    ELSE IF v > 1005 /\ v <= 1030 THEN Zone(10, "fever")
    ELSE IF v > 1030 THEN Zone(22, "critical")
    ELSE Zone(6, "warning")
ScoreTemperature(v) ==
    IF v >= 970 /\ v <= 995 THEN Zone(0, "normal")
    ELSE IF v > 995 /\ v <= 1030 THEN Zone(10, "fever")
    ELSE IF v > 1030 THEN Zone(22, "critical")
    ELSE IF v < 970 THEN Zone(6, "warning")
    ELSE Zone(0, "normal")

RISK_SCORING(vitalKey, v) ==
    CASE vitalKey = "heart_rate" -> ScoreHeartRate(v)
      [] vitalKey = "blood_pressure_systolic" -> ScoreSystolic(v)
      [] vitalKey = "blood_pressure_diastolic" -> ScoreDiastolic(v)
      [] vitalKey = "glucose" -> ScoreGlucose(v)
      [] vitalKey = "oxygen_saturation" -> ScoreOxygen(v)
      [] vitalKey = "temperature" -> ScoreTemperature(v)

(***************************************************************************)
(* explain(v): the sentence is kept as <<band, value>>.                    *)
(***************************************************************************)
Explain(vitalKey, v) ==
    CASE vitalKey = "heart_rate" ->
            IF v < 500 THEN << "critically low (< 50)", v >>
            ELSE IF v > 1200 THEN << "critically high (> 120)", v >>
            ELSE IF v < 600 THEN << "below normal (< 60)", v >>
            ELSE IF v > 1000 THEN << "above normal (> 100)", v >>
            ELSE << "within normal range", v >>
      [] vitalKey = "blood_pressure_systolic" ->
            IF v >= 1800 THEN << "in hypertensive crisis (>= 180)", v >>
            ELSE IF v >= 1300 THEN << "high (130-179)", v >>
            ELSE IF v >= 1200 THEN << "elevated (120-129)", v >>
            ELSE << "normal", v >>
      [] vitalKey = "blood_pressure_diastolic" ->
            IF v >= 1200 THEN << "in hypertensive crisis (>= 120)", v >>
            ELSE IF v >= 800 THEN << "high (>= 80)", v >>
            ELSE << "normal", v >>
      [] vitalKey = "glucose" ->
            IF v < 550 THEN << "critically low (< 55)", v >>
            ELSE IF v > 2000 THEN << "critically high (> 200)", v >>
            ELSE IF v > 1400 THEN << "high (141-200)", v >>
            ELSE IF v < 700 THEN << "low (55-69)", v >>
            ELSE << "within normal range", v >>
      [] vitalKey = "oxygen_saturation" ->
            IF v < 900 THEN << "critically low (< 90)", v >>
            ELSE IF v < 950 THEN << "low (90-94)", v >>
            ELSE << "within normal range", v >>
      [] vitalKey = "temperature" ->
            IF v > 1030 THEN << "critically high (> 103)", v >>
            ELSE IF v > 995 THEN << "indicates fever (99.5-103)", v >>
            ELSE IF v < 970 THEN << "below normal (< 97)", v >>
            ELSE << "within normal range", v >>

(***************************************************************************)
(* CONDITION_WEIGHTS, multipliers in tenths.  A condition that is not a    *)
(* key, or a vital that is not a key of its entry, gives `undefined`,      *)
(* which the lookup below treats as "no weight".                           *)
(***************************************************************************)
CONDITION_WEIGHTS ==
    ( "Type 2 Diabetes" :> [ glucose |-> 15 ] )
    @@ ( "Hypertension" :> [ blood_pressure_systolic |-> 15, blood_pressure_diastolic |-> 15 ] )
    @@ ( "Heart Disease" :> [ heart_rate |-> 15, oxygen_saturation |-> 12 ] )
    @@ ( "COPD" :> [ oxygen_saturation |-> 15, temperature |-> 12 ] )

Max2(a, b) == IF a >= b THEN a ELSE b
Min2(a, b) == IF a <= b THEN a ELSE b
Abs(a) == IF a < 0 THEN 0 - a ELSE a

(***************************************************************************)
(* getConditionWeight: a left-to-right fold with Math.max, from 1.0.       *)
(***************************************************************************)
RECURSIVE ConditionWeightFrom(_, _, _, _)
ConditionWeightFrom(conditions, vitalKey, i, weight) ==
    IF i > Len(conditions) THEN weight
    ELSE LET condition == conditions[i]
             known == condition \in DOMAIN CONDITION_WEIGHTS
                      /\ vitalKey \in DOMAIN CONDITION_WEIGHTS[condition]
         IN ConditionWeightFrom(conditions, vitalKey, i + 1,
                IF known THEN Max2(weight, CONDITION_WEIGHTS[condition][vitalKey])
                ELSE weight)

RECURSIVE ConditionWeightSumFrom(_, _, _, _)
ConditionWeightSumFrom(conditions, vitalKey, i, weight) ==
    IF i > Len(conditions) THEN weight
    ELSE LET condition == conditions[i]
             known == condition \in DOMAIN CONDITION_WEIGHTS
                      /\ vitalKey \in DOMAIN CONDITION_WEIGHTS[condition]
         IN ConditionWeightSumFrom(conditions, vitalKey, i + 1,
                IF known THEN weight + (CONDITION_WEIGHTS[condition][vitalKey] - 10)
                ELSE weight)

getConditionWeightAdditive(conditions, vitalKey) ==
    ConditionWeightSumFrom(conditions, vitalKey, 1, 10)

getConditionWeight(conditions, vitalKey) ==
    ConditionWeightFrom(conditions, vitalKey, 1, 10)

HIGHER_IS_WORSE ==
    { "heart_rate", "blood_pressure_systolic", "blood_pressure_diastolic",
      "glucose", "temperature" }

(***************************************************************************)
(* The dataPoints of one vital: { x: i, y: row[vitalKey] } for every row   *)
(* of the history whose value is not null, i counted from 0.               *)
(***************************************************************************)
RECURSIVE DataPointsFrom(_, _, _, _)
DataPointsFrom(history, vitalKey, i, acc) ==
    IF i > Len(history) THEN acc
    ELSE DataPointsFrom(history, vitalKey, i + 1,
            IF Present(history[i], vitalKey)
            THEN Append(acc, [ x |-> i - 1, y |-> history[i][vitalKey] ])
            ELSE acc)

(* the map without the null filter: a row without the value counts as y = 0 *)
DataPointsNullAsZero(history, vitalKey) ==
    [ i \in 1..Len(history) |->
        [ x |-> i - 1,
          y |-> IF Present(history[i], vitalKey) THEN history[i][vitalKey] ELSE 0 ] ]

DataPoints(history, vitalKey) == DataPointsFrom(history, vitalKey, 1, << >>)

RECURSIVE SumSeq(_, _)
SumSeq(xs, i) == IF i > Len(xs) THEN 0 ELSE xs[i] + SumSeq(xs, i + 1)

(***************************************************************************)
(* linearRegressionSlope.  The quotient is kept exact, as the pair         *)
(* num / den with den > 0: y is in tenths, so the slope in units per       *)
(* index is (n*sumXY - sumX*sumY) / (10 * denom).  Both early returns of   *)
(* the source (n < 2, denom === 0) give slope 0.                           *)
(***************************************************************************)
linearRegressionSlope(points) ==
    LET n == Len(points)
        sumX == SumSeq([ k \in 1..n |-> points[k].x ], 1)
        sumY == SumSeq([ k \in 1..n |-> points[k].y ], 1)
        sumXY == SumSeq([ k \in 1..n |-> points[k].x * points[k].y ], 1)
        sumX2 == SumSeq([ k \in 1..n |-> points[k].x * points[k].x ], 1)
        denom == n * sumX2 - sumX * sumX
    IN IF n < 2 THEN [ num |-> 0, den |-> 1 ]
       ELSE IF denom = 0 THEN [ num |-> 0, den |-> 1 ]
       ELSE [ num |-> n * sumXY - sumX * sumY, den |-> 10 * denom ]

(***************************************************************************)
(* classifyTrend: Math.abs(slope) < 0.5 is 2*|num| < den.                  *)
(***************************************************************************)
(* the dead zone with its end point included *)
classifyTrendInclusive(slope, vitalKey) ==
    IF 2 * Abs(slope.num) <= slope.den THEN "stable"
    ELSE IF vitalKey \in HIGHER_IS_WORSE
         THEN (IF slope.num > 0 THEN "worsening" ELSE "improving")
         ELSE (IF slope.num > 0 THEN "improving" ELSE "worsening")

classifyTrend(slope, vitalKey) ==
    IF 2 * Abs(slope.num) < slope.den THEN "stable"
    ELSE IF vitalKey \in HIGHER_IS_WORSE
         THEN (IF slope.num > 0 THEN "worsening" ELSE "improving")
         ELSE (IF slope.num > 0 THEN "improving" ELSE "worsening")

(***************************************************************************)
(* Math.round of a non-negative quotient a / b (b > 0): floor(a/b + 1/2).  *)
(***************************************************************************)
RoundDiv(a, b) == (2 * a + b) \div (2 * b)

(***************************************************************************)
(* Math.min(25, Math.round(points * weight)), weight in tenths.            *)
(***************************************************************************)
(* the product rounded, without the cap *)
WeightedPointsUncapped(points, weight) == RoundDiv(points * weight, 10)

WeightedPoints(points, weight) == Min2(25, RoundDiv(points * weight, 10))

(***************************************************************************)
(* The trend penalty: Math.round(Math.min(|slope| / 2, 1) * 5) when the    *)
(* trend is worsening over at least 3 data points, else 0.                 *)
(***************************************************************************)
(* the penalty already from two data points *)
TrendPenaltyFromTwoPoints(trend, slope, nPoints) ==
    IF trend = "worsening" /\ nPoints >= 2
    THEN IF Abs(slope.num) >= 2 * slope.den THEN 5
         ELSE RoundDiv(5 * Abs(slope.num), 2 * slope.den)
    ELSE 0

TrendPenalty(trend, slope, nPoints) ==
    IF trend = "worsening" /\ nPoints >= 3
    THEN IF Abs(slope.num) >= 2 * slope.den THEN 5
         ELSE RoundDiv(5 * Abs(slope.num), 2 * slope.den)
    ELSE 0

(***************************************************************************)
(* One iteration of the loop over SCORED_VITALS for a vital whose value    *)
(* is not null: the factor record, with its zone points kept for the       *)
(* out-of-range count.                                                     *)
(***************************************************************************)
Factor(vitalKey, value, history, conditions) ==
    LET z == RISK_SCORING(vitalKey, value)
        weight == getConditionWeight(conditions, vitalKey)
        weightedPoints == WeightedPoints(z.points, weight)
        dataPoints == DataPoints(history, vitalKey)
        slope == linearRegressionSlope(dataPoints)
        trend == classifyTrend(slope, vitalKey)
        trendPenalty == TrendPenalty(trend, slope, Len(dataPoints))
    IN [ vital |-> vitalKey,
         score |-> weightedPoints + trendPenalty,
         trend |-> trend,
         zone |-> z.zone,
         explanation |-> Explain(vitalKey, value) ]

RECURSIVE FactorsFrom(_, _, _, _, _)
FactorsFrom(latest, history, conditions, i, acc) ==
    IF i > Len(SCORED_VITALS) THEN acc
    ELSE LET vitalKey == SCORED_VITALS[i]
         IN FactorsFrom(latest, history, conditions, i + 1,
                IF Present(latest, vitalKey)
                THEN Append(acc, Factor(vitalKey, latest[vitalKey], history, conditions))
                ELSE acc)

RECURSIVE SumScores(_, _)
SumScores(factors, i) ==
    IF i > Len(factors) THEN 0 ELSE factors[i].score + SumScores(factors, i + 1)

OutOfRangeCount(factors) ==
    Cardinality({ k \in 1..Len(factors) : factors[k].zone # "normal" })

(***************************************************************************)
(* The compound risk penalty.  outOfRangeCount is a local of the call.     *)
(***************************************************************************)
CompoundPenaltyCarried(outOfRangeCount) ==
    LET carried == IF riskCalls = 0 THEN 0 ELSE OutOfRangeCount(riskResult.factors)
    IN IF outOfRangeCount + carried >= 3 THEN 10
       ELSE IF outOfRangeCount + carried >= 2 THEN 5
       ELSE 0

(* the two tiers one vital late *)
CompoundPenaltyStrict(outOfRangeCount) ==
    IF outOfRangeCount > 3 THEN 10
    ELSE IF outOfRangeCount > 2 THEN 5
    ELSE 0

CompoundPenalty(outOfRangeCount) ==
    IF outOfRangeCount >= 3 THEN 10
    ELSE IF outOfRangeCount >= 2 THEN 5
    ELSE 0

ClampNone(totalScore) == totalScore

Clamp(totalScore) == Max2(0, Min2(100, totalScore))

CategoryExclusive(overallScore) ==
    IF overallScore > 80 THEN "critical"
    ELSE IF overallScore > 55 THEN "high"
    ELSE IF overallScore > 30 THEN "moderate"
    ELSE "low"

Category(overallScore) ==
    IF overallScore >= 80 THEN "critical"
    ELSE IF overallScore >= 55 THEN "high"
    ELSE IF overallScore >= 30 THEN "moderate"
    ELSE "low"

(***************************************************************************)
(* factors.sort((a, b) => b.score - a.score): Array.prototype.sort is      *)
(* stable, so this is a stable sort by descending score - an insertion     *)
(* sort that puts each record after the records that are not smaller.      *)
(***************************************************************************)
RECURSIVE InsertByScore(_, _)
InsertByScore(sorted, f) ==
    IF Len(sorted) = 0 THEN << f >>
    ELSE IF sorted[Len(sorted)].score >= f.score THEN Append(sorted, f)
    ELSE Append(InsertByScore(SubSeq(sorted, 1, Len(sorted) - 1), f), sorted[Len(sorted)])

RECURSIVE SortByScoreFrom(_, _, _)
SortByScoreFrom(factors, i, acc) ==
    IF i > Len(factors) THEN acc
    ELSE SortByScoreFrom(factors, i + 1, InsertByScore(acc, factors[i]))

(* the same sort with a comparator that puts a record before its equals *)
RECURSIVE InsertBeforeEquals(_, _)
InsertBeforeEquals(sorted, f) ==
    IF Len(sorted) = 0 THEN << f >>
    ELSE IF sorted[Len(sorted)].score > f.score THEN Append(sorted, f)
    ELSE Append(InsertBeforeEquals(SubSeq(sorted, 1, Len(sorted) - 1), f), sorted[Len(sorted)])

RECURSIVE SortTiesReversedFrom(_, _, _)
SortTiesReversedFrom(factors, i, acc) ==
    IF i > Len(factors) THEN acc
    ELSE SortTiesReversedFrom(factors, i + 1, InsertBeforeEquals(acc, factors[i]))

SortByScoreTiesReversed(factors) == SortTiesReversedFrom(factors, 1, << >>)

SortByScore(factors) == SortByScoreFrom(factors, 1, << >>)

(***************************************************************************)
(* patientConditions is any JSON value.  ArrayOf(items) is an array;       *)
(* NotAnArray is a value for which Array.isArray is false, here the        *)
(* array-like object { 0: "Hypertension", length: 1 }: its conditions are  *)
(* taken as [].                                                            *)
(***************************************************************************)
ArrayOf(items) == [ isArray |-> TRUE, items |-> items ]
NotAnArray == [ isArray |-> FALSE, items |-> << "Hypertension" >> ]

(***************************************************************************)
(* calculateRiskScore.                                                     *)
(***************************************************************************)
calculateRiskScore(latestVitals, history, conds) ==
    LET conditions == IF conds.isArray THEN conds.items ELSE << >>
        factors == FactorsFrom(latestVitals, history, conditions, 1, << >>)
        totalScore == SumScores(factors, 1) + CompoundPenalty(OutOfRangeCount(factors))
        overallScore == Clamp(totalScore)
    IN [ overallScore |-> overallScore,
         category |-> Category(overallScore),
         factors |-> SortByScore(factors) ]

(***************************************************************************)
(* The risk route and the chat service call calculateRiskScore with the    *)
(* context they fetched; the call returns a fresh object and assigns       *)
(* nothing outside it.                                                     *)
(***************************************************************************)
CalculateRiskScore ==
    /\ riskCalls < MaxCalls
    /\ riskCalls' = riskCalls + 1
    /\ riskResult' = calculateRiskScore(reading, vitalsHistory, patientConditions)
    /\ UNCHANGED <<argVars, evalVars, simVars, weightResult, otherVars>>

(***************************************************************************)
(* The weight lookup of calculateRiskScore on its own: the Array.isArray   *)
(* guard, then getConditionWeight for every scored vital.                  *)
(***************************************************************************)
ComputeConditionWeights ==
    /\ weightResult = NoResult
    /\ LET conditions == IF patientConditions.isArray THEN patientConditions.items ELSE << >>
       IN weightResult' = [ v \in Vitals |-> getConditionWeight(conditions, v) ]
    /\ UNCHANGED <<argVars, evalVars, riskVars, simVars, otherVars>>

(***************************************************************************)
(* vitalSimulator.js: SCENARIOS (the overrides of every step, in tenths,   *)
(* and the repeat flag) and setScenario.  The demo route lets through the  *)
(* three scenario names and 'normal'; any other name reaches neither       *)
(* assignment.  readingsSinceSet is not state of the program: it counts    *)
(* the readings generated since setScenario last took effect.              *)
(***************************************************************************)
Bp(s, d) == ("blood_pressure_systolic" :> s) @@ ("blood_pressure_diastolic" :> d)

SCENARIOS ==
    ( "glucose-spike" :>
        [ repeat |-> FALSE,
          steps |-> << ("glucose" :> 1600), ("glucose" :> 2000), ("glucose" :> 2300),
                       ("glucose" :> 2550), ("glucose" :> 2800) >> ] )
    @@ ( "bp-crisis" :>
        [ repeat |-> FALSE,
          steps |-> << Bp(1450, 950), Bp(1550, 1000), Bp(1650, 1080),
                       Bp(1750, 1150), Bp(1850, 1200) >> ] )
    @@ ( "cardiac-warning" :>
        [ repeat |-> TRUE,
          steps |-> << ("heart_rate" :> 550), ("heart_rate" :> 1100), ("heart_rate" :> 520),
                       ("heart_rate" :> 1150), ("heart_rate" :> 480), ("heart_rate" :> 1200) >> ] )

ScenarioNames == DOMAIN SCENARIOS \cup { "normal", "unknown-scenario" }

(* setScenario without the reset of scenarioStep *)
SetScenarioKeepsStep(name) ==
    /\ IF name = "normal"
       THEN activeScenario' = Null /\ scenarioStep' = 0 /\ readingsSinceSet' = 0
       ELSE IF name \notin DOMAIN SCENARIOS
            THEN UNCHANGED <<activeScenario, scenarioStep, readingsSinceSet>>
            ELSE activeScenario' = name /\ UNCHANGED scenarioStep /\ readingsSinceSet' = 0
    /\ UNCHANGED <<argVars, evalVars, riskVars, weightResult>>
    /\ UNCHANGED <<timerVars, tickVars, hasPatient, devVars, ackResult>>

SetScenario(name) ==
    /\ IF name = "normal"
       THEN activeScenario' = Null /\ scenarioStep' = 0 /\ readingsSinceSet' = 0
       ELSE IF name \notin DOMAIN SCENARIOS
            THEN UNCHANGED <<activeScenario, scenarioStep, readingsSinceSet>>
            ELSE activeScenario' = name /\ scenarioStep' = 0 /\ readingsSinceSet' = 0
    /\ UNCHANGED <<argVars, evalVars, riskVars, weightResult>>
    /\ UNCHANGED <<timerVars, tickVars, hasPatient, devVars, ackResult>>

(***************************************************************************)
(* Inputs.  NORMAL_BASELINES is the simulator's healthy reading; the       *)
(* other values sit on, just below and just above every boundary of the    *)
(* rule table and of the zone table, plus 0 and one value deep in the      *)
(* worst zone.                                                             *)
(***************************************************************************)
NORMAL_BASELINES ==
    [ heart_rate |-> 750, blood_pressure_systolic |-> 1180,
      blood_pressure_diastolic |-> 760, glucose |-> 1050,
      oxygen_saturation |-> 975, temperature |-> 984 ]

WorstValues ==
    [ heart_rate |-> 1550, blood_pressure_systolic |-> 1850,
      blood_pressure_diastolic |-> 1200, glucose |-> 2800,
      oxygen_saturation |-> 880, temperature |-> 1040 ]

EvalValues ==
    [ heart_rate |-> { 0, 399, 400, 401, 499, 500, 501, 750, 1199, 1200, 1201,
                       1499, 1500, 1501, 1550 },
      blood_pressure_systolic |-> { 0, 1180, 1399, 1400, 1401, 1599, 1600, 1601, 1850 },
      blood_pressure_diastolic |-> { 0, 760, 899, 900, 901, 999, 1000, 1001, 1200 },
      glucose |-> { 0, 500, 1050, 1999, 2000, 2001, 2499, 2500, 2501, 2800 },
      oxygen_saturation |-> { 0, 880, 919, 920, 921, 949, 950, 951, 975 },
      temperature |-> { 0, 984, 1003, 1004, 1005, 1029, 1030, 1031, 1040 } ]

RiskValues ==
    [ heart_rate |-> { 0, 499, 500, 599, 600, 750, 1000, 1001, 1200, 1201, 1550 },
      blood_pressure_systolic |-> { 0, 1180, 1199, 1200, 1290, 1291, 1390, 1391,
                                    1790, 1791, 1800, 1850 },
      blood_pressure_diastolic |-> { 0, 760, 799, 800, 890, 891, 1199, 1200 },
      glucose |-> { 0, 500, 549, 550, 699, 700, 1050, 1400, 1401, 2000, 2001, 2100, 2450 },
      oxygen_saturation |-> { 0, 880, 899, 900, 949, 950, 975 },
      temperature |-> { 0, 969, 970, 984, 995, 996, 1030, 1031, 1040 } ]

SingleReadings(values) ==
    UNION { { (v :> x) : x \in values[v] } : v \in Vitals }

Pick(f) ==
    [ v \in { w \in Vitals : f[w] # "absent" } |->
        IF f[v] = "normal" THEN NORMAL_BASELINES[v] ELSE WorstValues[v] ]

ComboReadings(levels) == { Pick(f) : f \in [ Vitals -> levels ] }

(* sleep_hours and steps are fields of a reading that neither component reads *)
UnscoredReadings ==
    { ("sleep_hours" :> 45) @@ ("steps" :> 1200000),
      ("heart_rate" :> 1550) @@ ("sleep_hours" :> 0) @@ ("steps" :> 0),
      WorstValues @@ ("sleep_hours" :> 45) @@ ("steps" :> 1200000) }

EvalReadings ==
    SingleReadings(EvalValues) \cup ComboReadings({ "absent", "normal", "worst" })
        \cup UnscoredReadings

RiskReadings ==
    SingleReadings(RiskValues) \cup ComboReadings({ "normal", "worst" })
        \cup ComboReadings({ "absent", "worst" }) \cup UnscoredReadings

(***************************************************************************)
(* History rows: the baseline, a row in which every vital has moved in     *)
(* its worsening direction by a different amount, and a row that carries   *)
(* the heart rate only.                                                    *)
(***************************************************************************)
HistoryRows ==
    { NORMAL_BASELINES,
      [ heart_rate |-> 760, blood_pressure_systolic |-> 1200,
        blood_pressure_diastolic |-> 800, glucose |-> 1080,
        oxygen_saturation |-> 965, temperature |-> 988 ],
      ("heart_rate" :> 750) }

(* glucose rising by 50 a row: 110, 160, 210 *)
AscendingGlucose ==
    << ("glucose" :> 1100), ("glucose" :> 1600), ("glucose" :> 2100) >>

Histories == UNION { [ 1..n -> HistoryRows ] : n \in 0..MaxHist } \cup { AscendingGlucose }

ConditionNames == DOMAIN CONDITION_WEIGHTS \cup { "Asthma" }

ConditionInputs ==
    { ArrayOf(c) : c \in UNION { [ 1..n -> ConditionNames ] : n \in 0..MaxConds } }
        \cup { NotAnArray }

RiskConditionInputs ==
    { ArrayOf(<< >>), NotAnArray, ArrayOf(<< "Type 2 Diabetes" >>),
      ArrayOf(<< "Hypertension", "Type 2 Diabetes" >>),
      ArrayOf(<< "Heart Disease", "COPD", "Hypertension", "Type 2 Diabetes" >>) }

EngineReadings ==
    { NullReading, << >>, ("sleep_hours" :> 45) @@ ("steps" :> 1200000),
      ("heart_rate" :> 0), ("heart_rate" :> 750), ("heart_rate" :> 1550),
      ("glucose" :> 0), ("glucose" :> 2450), ("oxygen_saturation" :> 0),
      ("temperature" :> 0), ("blood_pressure_systolic" :> 0),
      ("blood_pressure_diastolic" :> 0),
      ("blood_pressure_systolic" :> 1850) @@ ("blood_pressure_diastolic" :> 1200),
      [ v \in Vitals |-> 0 ], NORMAL_BASELINES, WorstValues }

EngineHistories ==
    { << >>, << NORMAL_BASELINES, NORMAL_BASELINES, WorstValues >> }

EngineConditionInputs == { ArrayOf(<< >>), ArrayOf(<< "Heart Disease", "COPD" >>) }

(***************************************************************************)
(* vitalSimulator.js: generateReading.  gaussRandom() is a draw from       *)
(* [-1, 1]; the model draws one of -1, 0, 1 and uses it for every vital.   *)
(* The step of the active scenario is laid over the noisy baseline         *)
(* (Object.assign), then the three whole-number vitals are rounded.        *)
(***************************************************************************)
NOISE ==
    [ heart_rate |-> 100, blood_pressure_systolic |-> 80,
      blood_pressure_diastolic |-> 50, glucose |-> 150,
      oxygen_saturation |-> 10, temperature |-> 3 ]

NoiseLevels == { 0 - 1, 0, 1 }

MathRound(x) == ((x + 5) \div 10) * 10

RoundedVitals ==
    { "heart_rate", "blood_pressure_systolic", "blood_pressure_diastolic" }

ScenarioStepOverride ==
    IF activeScenario \in DOMAIN SCENARIOS
         /\ scenarioStep + 1 \in DOMAIN SCENARIOS[activeScenario].steps
    THEN SCENARIOS[activeScenario].steps[scenarioStep + 1]
    ELSE << >>

generateReading(g) ==
    LET noisy == [ v \in Vitals |-> NORMAL_BASELINES[v] + g * NOISE[v] ]
        step == ScenarioStepOverride
    IN [ v \in Vitals |->
            LET x == IF v \in DOMAIN step THEN step[v] ELSE noisy[v]
            IN IF v \in RoundedVitals THEN MathRound(x) ELSE x ]

(***************************************************************************)
(* advanceScenario: one step forward; past the last step a repeating       *)
(* scenario starts over and any other scenario ends.                       *)
(***************************************************************************)
(* the same with every scenario treated as repeating *)
AdvanceScenarioAlwaysRepeats ==
    IF activeScenario \notin DOMAIN SCENARIOS
    THEN UNCHANGED <<activeScenario, scenarioStep>>
    ELSE /\ scenarioStep' =
               IF scenarioStep + 1 >= Len(SCENARIOS[activeScenario].steps)
               THEN 0 ELSE scenarioStep + 1
         /\ UNCHANGED activeScenario

AdvanceScenario ==
    IF activeScenario \notin DOMAIN SCENARIOS
    THEN UNCHANGED <<activeScenario, scenarioStep>>
    ELSE LET scenario == SCENARIOS[activeScenario]
         IN IF scenarioStep + 1 >= Len(scenario.steps)
            THEN IF scenario.repeat
                 THEN scenarioStep' = 0 /\ UNCHANGED activeScenario
                 ELSE activeScenario' = Null /\ scenarioStep' = 0
            ELSE scenarioStep' = scenarioStep + 1 /\ UNCHANGED activeScenario

(***************************************************************************)
(* tick, up to its `await checkVitalsAndAlert`: the reading is generated   *)
(* and inserted, and the evaluator runs its rule loop.  When nothing is    *)
(* breached the evaluator's promise is already resolved and the rest of    *)
(* the tick (the 'vitals-updated' event and advanceScenario) runs as a     *)
(* microtask, before any other request or timer; otherwise the tick stays  *)
(* suspended until the AI request settles.  The tick drops what the        *)
(* evaluator returns.  Of the inserted row the model keeps the source and  *)
(* the values that the scenario step put into it; the whole reading, with  *)
(* its noise, is the one handed to the evaluator.                          *)
(***************************************************************************)
SimulatorRow(step) == [ source |-> "simulator", patient_id |-> PatientId, scenario |-> step ]

VitalsUpdated(row) == [ name |-> "vitals-updated", patientId |-> PatientId, reading |-> row ]

Tick(g) ==
    LET r == generateReading(g)
        row == SimulatorRow(ScenarioStepOverride)
        breached == Breached(r, nextId)
    IN /\ reading' = r
       /\ vitalsStore' = Append(vitalsStore, row)
       /\ tickCount' = tickCount + 1
       /\ readingsSinceSet' = readingsSinceSet + 1
       /\ evalCount' = evalCount + 1
       /\ nextId' = nextId + Len(breached)
       /\ IF Len(breached) = 0
          THEN /\ events' = Append(events, VitalsUpdated(row))
               /\ AdvanceScenario
               /\ UNCHANGED <<ticks, aiCalls>>
          ELSE /\ ticks' = ticks \cup { [ tick |-> tickCount + 1, row |-> row,
                                          breached |-> breached ] }
               /\ aiCalls' = aiCalls + 1
               /\ UNCHANGED <<events, activeScenario, scenarioStep>>
       /\ UNCHANGED <<alertStore, pending, returns, thrown>>
       /\ UNCHANGED <<vitalsHistory, patientConditions, riskVars, weightResult>>
       /\ UNCHANGED <<hasPatient, devVars, ackResult>>

(* the callback of setInterval: `if (!patientId) return;` then the tick,  *)
(* g being the draw of gaussRandom                                        *)
TimerTick(g) ==
    /\ timers # {}
    /\ simPatientId # Null
    /\ Tick(g)
    /\ UNCHANGED timerVars

(***************************************************************************)
(* tick, from the settled evaluator call to its end: the alerts are        *)
(* inserted and emitted by checkVitalsAndAlert, then the tick emits        *)
(* 'vitals-updated' and calls advanceScenario.  Nothing here looks at      *)
(* intervalId.  outcome is the way the AI request of the tick settled.     *)
(***************************************************************************)
(* the same with the rest of the tick dropped once the simulator is stopped *)
TickResumeChecksRunning(outcome) ==
    \E t \in ticks :
        LET alerts == BuildAlerts(t.breached, outcome)
        IN /\ ticks' = ticks \ {t}
           /\ IF intervalId = 0
              THEN UNCHANGED <<alertStore, events, activeScenario, scenarioStep>>
              ELSE /\ alertStore' = alertStore \o alerts
                   /\ events' = (events \o EmitNewAlerts(alerts)) \o << VitalsUpdated(t.row) >>
                   /\ AdvanceScenario
           /\ UNCHANGED <<aiCalls, pending, returns, evalCount, nextId, thrown>>
           /\ UNCHANGED <<argVars, riskVars, weightResult, timerVars>>
           /\ UNCHANGED <<tickCount, vitalsStore, hasPatient, readingsSinceSet, devVars, ackResult>>

TickResume(outcome) ==
    \E t \in ticks :
        LET alerts == BuildAlerts(t.breached, outcome)
        IN /\ ticks' = ticks \ {t}
           /\ alertStore' = alertStore \o alerts
           /\ events' = (events \o EmitNewAlerts(alerts)) \o << VitalsUpdated(t.row) >>
           /\ AdvanceScenario
           /\ UNCHANGED <<aiCalls, pending, returns, evalCount, nextId, thrown>>
           /\ UNCHANGED <<argVars, riskVars, weightResult, timerVars>>
           /\ UNCHANGED <<tickCount, vitalsStore, hasPatient, readingsSinceSet, devVars, ackResult>>

(***************************************************************************)
(* startSimulator and stopSimulator.  The first patient is looked up; the  *)
(* first tick runs inside the call (g is its draw of gaussRandom), then    *)
(* the interval timer is scheduled.                                        *)
(***************************************************************************)
SimulatorUntouched ==
    UNCHANGED <<argVars, evalVars, riskVars, simVars, weightResult, tickVars,
                hasPatient, readingsSinceSet, devVars, ackResult>>

(* the same without the `if (intervalId)` guard *)
StartSimulatorUnguarded(g) ==
    IF ~hasPatient
    THEN /\ simResult' = "error"
         /\ UNCHANGED <<intervalId, simPatientId, timers, timerSeq>>
         /\ SimulatorUntouched
    ELSE /\ simPatientId' = PatientId
         /\ Tick(g)
         /\ timerSeq' = timerSeq + 1
         /\ timers' = timers \cup { timerSeq + 1 }
         /\ intervalId' = timerSeq + 1
         /\ simResult' = "started"

StartSimulator(g) ==
    IF intervalId # 0
    THEN /\ simResult' = "alreadyRunning"
         /\ UNCHANGED <<intervalId, simPatientId, timers, timerSeq>>
         /\ SimulatorUntouched
    ELSE IF ~hasPatient
    THEN /\ simResult' = "error"
         /\ UNCHANGED <<intervalId, simPatientId, timers, timerSeq>>
         /\ SimulatorUntouched
    ELSE /\ simPatientId' = PatientId
         /\ Tick(g)
         /\ timerSeq' = timerSeq + 1
         /\ timers' = timers \cup { timerSeq + 1 }
         /\ intervalId' = timerSeq + 1
         /\ simResult' = "started"

(* the same without the reset of scenarioStep *)
StopSimulatorKeepsStep ==
    IF intervalId = 0
    THEN /\ simResult' = "alreadyStopped"
         /\ UNCHANGED <<intervalId, simPatientId, timers, timerSeq>>
         /\ SimulatorUntouched
    ELSE /\ timers' = timers \ { intervalId }
         /\ intervalId' = 0
         /\ activeScenario' = Null
         /\ simResult' = "stopped"
         /\ UNCHANGED <<scenarioStep, simPatientId, timerSeq>>
         /\ UNCHANGED <<argVars, evalVars, riskVars, weightResult, tickVars,
                        hasPatient, readingsSinceSet, devVars, ackResult>>
StopSimulator ==
    IF intervalId = 0
    THEN /\ simResult' = "alreadyStopped"
         /\ UNCHANGED <<intervalId, simPatientId, timers, timerSeq>>
         /\ SimulatorUntouched
    ELSE /\ timers' = timers \ { intervalId }
         /\ intervalId' = 0
         /\ activeScenario' = Null
         /\ scenarioStep' = 0
         /\ simResult' = "stopped"
         /\ UNCHANGED <<simPatientId, timerSeq>>
         /\ UNCHANGED <<argVars, evalVars, riskVars, weightResult, tickVars,
                        hasPatient, readingsSinceSet, devVars, ackResult>>

(***************************************************************************)
(* The device routes (routes/devices.js) and steps 1 and 2 of the guided   *)
(* demo.  A row of connected_devices keeps its id, device_type and status. *)
(* A setTimeout callback that has not run yet is a record of deviceTimers: *)
(* `due` is the second it becomes due, `ord` its place among the timers of *)
(* its request, `steps` what it does per device, in order: an optional     *)
(* status update (status "none" when it has none) and an optional reading. *)
(***************************************************************************)
SUPPORTED_DEVICES == { "apple_watch", "fitbit", "whoop", "oura_ring", "dexcom" }

ActiveStatuses == { "connected", "syncing", "pending" }

getActiveByType(type) ==
    { i \in DOMAIN devices : devices[i].device_type = type
                             /\ devices[i].status \in ActiveStatuses }

getDevice(deviceId) == { i \in DOMAIN devices : devices[i].id = deviceId }

(* UPDATE connected_devices SET status = ? WHERE id = ? *)
updateStatus(rows, status, deviceId) ==
    [ i \in DOMAIN rows |->
        IF rows[i].id = deviceId THEN [ rows[i] EXCEPT !.status = status ] ELSE rows[i] ]

DeviceStatusChange(deviceId, status) ==
    [ name |-> "device-status-change", deviceId |-> deviceId, status |-> status ]

DeviceRow(type) == [ source |-> type, patient_id |-> PatientId ]

DeviceStep(deviceId, type, status, reads) ==
    [ deviceId |-> deviceId, device_type |-> type, status |-> status, reads |-> reads ]

Timeout(due, ord, steps) == [ due |-> due, ord |-> ord, steps |-> steps ]

(* the rows, the events and the vitals after the steps k.. of a callback *)
RECURSIVE RunStepsFrom(_, _, _)
RunStepsFrom(steps, k, acc) ==
    IF k > Len(steps)
    THEN acc
    ELSE LET s == steps[k]
             rows == IF s.status = "none" THEN acc.rows
                     ELSE updateStatus(acc.rows, s.status, s.deviceId)
             ev1 == IF s.status = "none" THEN acc.events
                    ELSE Append(acc.events, DeviceStatusChange(s.deviceId, s.status))
             ev2 == IF s.reads THEN Append(ev1, VitalsUpdated(DeviceRow(s.device_type)))
                    ELSE ev1
             vit == IF s.reads THEN Append(acc.vitals, DeviceRow(s.device_type))
                    ELSE acc.vitals
         IN RunStepsFrom(steps, k + 1, [ rows |-> rows, events |-> ev2, vitals |-> vit ])

DeviceUntouched ==
    UNCHANGED <<argVars, riskVars, simVars, weightResult, timerVars, ticks, tickCount,
                hasPatient, readingsSinceSet, ackResult,
                aiCalls, pending, returns, evalCount, thrown>>

Refused(status) ==
    /\ devResult' = status
    /\ UNCHANGED <<devices, deviceTimers, clock, alertStore, events, nextId, vitalsStore>>
    /\ DeviceUntouched

(* a timer may run once it is due and the earlier timers of its own       *)
(* request that are due have run                                          *)
Due(t) ==
    /\ t.due <= clock
    /\ \A u \in deviceTimers :
          (u.steps[1].deviceId = t.steps[1].deviceId /\ u.due <= t.due) => u.ord >= t.ord

(* the same with the callback giving up on a device that is disconnected *)
RunTimeoutChecksStatus ==
    \E t \in deviceTimers :
        /\ Due(t)
        /\ LET live == SelectSeq(t.steps, LAMBDA s :
                          \A i \in getDevice(s.deviceId) : devices[i].status # "disconnected")
               out == RunStepsFrom(live, 1,
                          [ rows |-> devices, events |-> events, vitals |-> vitalsStore ])
           IN /\ devices' = out.rows
              /\ events' = out.events
              /\ vitalsStore' = out.vitals
        /\ deviceTimers' = deviceTimers \ {t}
        /\ UNCHANGED <<devResult, clock, alertStore, nextId>>
        /\ DeviceUntouched

RunTimeout ==
    \E t \in deviceTimers :
        /\ Due(t)
        /\ LET out == RunStepsFrom(t.steps, 1,
                          [ rows |-> devices, events |-> events, vitals |-> vitalsStore ])
           IN /\ devices' = out.rows
              /\ events' = out.events
              /\ vitalsStore' = out.vitals
        /\ deviceTimers' = deviceTimers \ {t}
        /\ UNCHANGED <<devResult, clock, alertStore, nextId>>
        /\ DeviceUntouched

(* a second passes; the timers that are due run first *)
PassSecond ==
    /\ \A t \in deviceTimers : t.due > clock
    /\ clock' = clock + 1
    /\ UNCHANGED <<devices, deviceTimers, devResult, alertStore, events, nextId, vitalsStore>>
    /\ DeviceUntouched

(* POST /:patientId/connect *)
Connect(type) ==
    IF ~hasPatient THEN Refused(404)
    ELSE IF type \notin SUPPORTED_DEVICES THEN Refused(400)
    ELSE IF getActiveByType(type) # {} THEN Refused(409)
    ELSE LET deviceId == nextId + 1
         IN /\ nextId' = deviceId
            /\ devices' = Append(devices, [ id |-> deviceId, device_type |-> type,
                                            status |-> "pending" ])
            /\ devResult' = 201
            /\ deviceTimers' = deviceTimers \cup
                   { Timeout(clock + 2, 1, << DeviceStep(deviceId, type, "syncing", FALSE) >>),
                     Timeout(clock + 6, 2, << DeviceStep(deviceId, type, "connected", TRUE) >>) }
            /\ UNCHANGED <<clock, alertStore, events, vitalsStore>>
            /\ DeviceUntouched

(* POST /:patientId/:deviceId/sync *)
Sync(deviceId) ==
    IF ~hasPatient THEN Refused(404)
    ELSE IF getDevice(deviceId) = {} THEN Refused(404)
    ELSE LET device == devices[CHOOSE i \in getDevice(deviceId) : TRUE]
             type == device.device_type
         IN IF device.status # "connected" THEN Refused(400)
            ELSE /\ devices' = updateStatus(devices, "syncing", deviceId)
                 /\ events' = Append(events, DeviceStatusChange(deviceId, "syncing"))
                 /\ devResult' = 200
                 /\ deviceTimers' = deviceTimers \cup
                        ( { Timeout(clock + i, i, << DeviceStep(deviceId, type, "none", TRUE) >>)
                              : i \in 1..3 }
                          \cup { Timeout(clock + 3, 4,
                                    << DeviceStep(deviceId, type, "connected", FALSE) >>) } )
                 /\ UNCHANGED <<clock, alertStore, nextId, vitalsStore>>
                 /\ DeviceUntouched

(* DELETE /:patientId/:deviceId *)
Disconnect(deviceId) ==
    IF ~hasPatient THEN Refused(404)
    ELSE IF getDevice(deviceId) = {} THEN Refused(404)
    ELSE /\ devices' = updateStatus(devices, "disconnected", deviceId)
         /\ events' = Append(events, DeviceStatusChange(deviceId, "disconnected"))
         /\ devResult' = 200
         /\ UNCHANGED <<deviceTimers, clock, alertStore, nextId, vitalsStore>>
         /\ DeviceUntouched

(* POST /api/demo/step/1: the patient's vitals, alerts and devices are deleted *)
DemoStep1 ==
    IF ~hasPatient THEN Refused(404)
    ELSE /\ vitalsStore' = << >>
         /\ alertStore' = << >>
         /\ devices' = << >>
         /\ devResult' = 200
         /\ UNCHANGED <<deviceTimers, clock, events, nextId>>
         /\ DeviceUntouched

(* POST /api/demo/step/2: Apple Watch and Dexcom G7 are paired *)
DemoDevices == << "apple_watch", "dexcom" >>

DemoStep2 ==
    IF ~hasPatient THEN Refused(404)
    ELSE LET ids == [ k \in 1..Len(DemoDevices) |-> nextId + k ]
             rows == [ k \in 1..Len(DemoDevices) |->
                         [ id |-> ids[k], device_type |-> DemoDevices[k], status |-> "pending" ] ]
         IN /\ nextId' = nextId + Len(DemoDevices)
            /\ devices' = devices \o rows
            /\ events' = events \o [ k \in 1..Len(DemoDevices) |->
                                       DeviceStatusChange(ids[k], "pending") ]
            /\ devResult' = 200
            /\ deviceTimers' = deviceTimers \cup
                   { Timeout(clock + 2, 1, [ k \in 1..Len(DemoDevices) |->
                         DeviceStep(ids[k], DemoDevices[k], "syncing", FALSE) ]),
                     Timeout(clock + 5, 2, [ k \in 1..Len(DemoDevices) |->
                         DeviceStep(ids[k], DemoDevices[k], "connected", TRUE) ]) }
            /\ UNCHANGED <<clock, alertStore, vitalsStore>>
            /\ DeviceUntouched

(***************************************************************************)
(* seedDb (db/schema.js) and the acknowledge and unread-count routes       *)
(* (routes/alerts.js).  seedDb runs at server start and on POST            *)
(* /api/demo/seed; it does nothing when a patient exists.  Otherwise it    *)
(* inserts the demo patient, 30 days of six readings, and one alert per    *)
(* entry of ALERT_DEFINITIONS with the entry's own acknowledged flag (the  *)
(* value and message of a seeded alert are drawn at random and left out).  *)
(***************************************************************************)
AlertDefinition(type, title, vital_type, threshold, acknowledged) ==
    [ type |-> type, title |-> title, vital_type |-> vital_type,
      threshold |-> threshold, acknowledged |-> acknowledged ]

ALERT_DEFINITIONS ==
    << AlertDefinition("warning", "Elevated Blood Glucose", "glucose", 2000, 1),
       AlertDefinition("critical", "High Blood Pressure Detected",
                       "blood_pressure_systolic", 1600, 1),
       AlertDefinition("critical", "Severely Elevated Blood Glucose", "glucose", 2000, 1),
       AlertDefinition("warning", "High Blood Pressure Detected",
                       "blood_pressure_systolic", 1600, 0),
       AlertDefinition("warning", "Elevated Blood Glucose", "glucose", 2000, 0),
       AlertDefinition("critical", "Low Oxygen Saturation", "oxygen_saturation", 950, 0) >>

SeededDays == 30

SeededSlots == 6

SeededVital == [ source |-> "simulated", patient_id |-> PatientId ]

SeededAlert(def, id) ==
    [ id |-> id, patient_id |-> PatientId, type |-> def.type, title |-> def.title,
      vital_type |-> def.vital_type, threshold_value |-> def.threshold,
      acknowledged |-> def.acknowledged ]

Answer(route, status, error, alertId, acknowledged, count) ==
    [ route |-> route, status |-> status, error |-> error, alertId |-> alertId,
      acknowledged |-> acknowledged, count |-> count ]

NoAnswer == Answer("none", 0, "", 0, 0, 0)

AlertsUntouched ==
    UNCHANGED <<argVars, riskVars, simVars, weightResult, timerVars, tickVars,
                readingsSinceSet, devVars,
                events, aiCalls, pending, returns, evalCount, thrown>>

(* POST /api/demo/seed *)
SeedDb ==
    IF hasPatient
    THEN /\ ackResult' = Answer("seed", 400, "Database already has patient data", 0, 0, 0)
         /\ UNCHANGED <<hasPatient, alertStore, vitalsStore, nextId>>
         /\ UNCHANGED <<argVars, riskVars, simVars, weightResult, timerVars,
                        ticks, tickCount, readingsSinceSet, devVars,
                        events, aiCalls, pending, returns, evalCount, thrown>>
    ELSE /\ hasPatient' = TRUE
         /\ vitalsStore' = vitalsStore \o [ k \in 1..(SeededDays * SeededSlots) |-> SeededVital ]
         /\ alertStore' = alertStore \o [ k \in 1..Len(ALERT_DEFINITIONS) |->
                                            SeededAlert(ALERT_DEFINITIONS[k], nextId + k) ]
         /\ nextId' = nextId + Len(ALERT_DEFINITIONS)
         /\ ackResult' = Answer("seed", 200, "", 0, 0, 0)
         /\ UNCHANGED <<argVars, riskVars, simVars, weightResult, timerVars,
                        ticks, tickCount, readingsSinceSet, devVars,
                        events, aiCalls, pending, returns, evalCount, thrown>>

getAlert(alertId) == { i \in DOMAIN alertStore : alertStore[i].id = alertId }

(* the same with the flag flipped instead of set *)
AcknowledgeToggles(alertId) ==
    /\ IF getAlert(alertId) = {}
       THEN /\ ackResult' = Answer("acknowledge", 404, "Alert not found", alertId, 0, 0)
            /\ UNCHANGED alertStore
       ELSE /\ alertStore' = [ i \in DOMAIN alertStore |->
                                 IF alertStore[i].id = alertId
                                 THEN [ alertStore[i] EXCEPT !.acknowledged = 1 - @ ]
                                 ELSE alertStore[i] ]
            /\ ackResult' = Answer("acknowledge", 200, "", alertId, 1, 0)
    /\ UNCHANGED <<hasPatient, vitalsStore, nextId>>
    /\ AlertsUntouched

(* PATCH /:alertId/acknowledge *)
Acknowledge(alertId) ==
    /\ IF getAlert(alertId) = {}
       THEN /\ ackResult' = Answer("acknowledge", 404, "Alert not found", alertId, 0, 0)
            /\ UNCHANGED alertStore
       ELSE /\ alertStore' = [ i \in DOMAIN alertStore |->
                                 IF alertStore[i].id = alertId
                                 THEN [ alertStore[i] EXCEPT !.acknowledged = 1 ]
                                 ELSE alertStore[i] ]
            /\ ackResult' = Answer("acknowledge", 200, "", alertId, 1, 0)
    /\ UNCHANGED <<hasPatient, vitalsStore, nextId>>
    /\ AlertsUntouched

(* the count of the rows WHERE patient_id = ? AND acknowledged = 0 *)
RECURSIVE countUnacknowledgedFrom(_, _)
countUnacknowledgedFrom(rows, k) ==
    IF k > Len(rows) THEN 0
    ELSE (IF rows[k].patient_id = PatientId /\ rows[k].acknowledged = 0 THEN 1 ELSE 0)
         + countUnacknowledgedFrom(rows, k + 1)

countUnacknowledged == countUnacknowledgedFrom(alertStore, 1)

(* GET /:patientId/unread-count *)
UnreadCount ==
    /\ IF ~hasPatient
       THEN ackResult' = Answer("unread-count", 404, "Patient not found", 0, 0, 0)
       ELSE ackResult' = Answer("unread-count", 200, "", 0, 0, countUnacknowledged)
    /\ UNCHANGED <<hasPatient, alertStore, vitalsStore, nextId>>
    /\ AlertsUntouched

(***************************************************************************)
(* Initial states: a fresh server (empty alert table, nothing emitted,     *)
(* simulator idle), with the arguments of the calls drawn from the sets    *)
(* above.                                                                  *)
(***************************************************************************)
Untouched ==
    /\ alertStore = << >>
    /\ events = << >>
    /\ aiCalls = 0
    /\ pending = {}
    /\ returns = << >>
    /\ evalCount = 0
    /\ thrown = 0
    /\ riskResult = NoResult
    /\ riskCalls = 0
    /\ weightResult = NoResult
    /\ ticks = {}
    /\ tickCount = 0
    /\ vitalsStore = << >>
    /\ deviceTimers = {}
    /\ devResult = 0
    /\ clock = 0
    /\ ackResult = NoAnswer

Quiet ==
    /\ Untouched
    /\ nextId = 0
    /\ devices = << >>

SimulatorOff ==
    /\ activeScenario = Null
    /\ scenarioStep = 0
    /\ readingsSinceSet = 0
    /\ intervalId = 0
    /\ simPatientId = Null
    /\ timers = {}
    /\ timerSeq = 0
    /\ simResult = "none"

Idle == Quiet /\ SimulatorOff

Fresh == Idle /\ hasPatient = TRUE

Init ==
    /\ reading \in EngineReadings
    /\ vitalsHistory \in EngineHistories
    /\ patientConditions \in EngineConditionInputs
    /\ Fresh

Next ==
    \/ CheckVitalsAndAlertStart
    \/ CheckVitalsAndAlertFinish
    \/ CheckVitals
    \/ CalculateRiskScore
    \/ \E name \in ScenarioNames : SetScenario(name)

Spec == Init /\ [][Next]_vars

(* the evaluator alone, over the full set of readings *)
InitEval ==
    /\ reading \in EvalReadings
    /\ vitalsHistory = << >>
    /\ patientConditions = ArrayOf(<< >>)
    /\ Fresh

NextEval ==
    \/ CheckVitalsAndAlertStart
    \/ CheckVitalsAndAlertFinish
    \/ CheckVitals

SpecEval == InitEval /\ [][NextEval]_vars

(* the scorer alone, called once on each of the readings, histories and conditions *)
InitRisk ==
    /\ reading \in RiskReadings
    /\ vitalsHistory \in Histories
    /\ patientConditions \in RiskConditionInputs
    /\ Fresh

NextRisk == riskCalls = 0 /\ CalculateRiskScore

SpecRisk == InitRisk /\ [][NextRisk]_vars

(* the scorer on one vital at a time, over every whole number from         *)
(* -MaxValue to MaxValue, with no history and no conditions                *)
IntegerValues == { 10 * x : x \in (0 - MaxValue)..MaxValue }

InitZone ==
    /\ reading \in { (v :> x) : v \in Vitals, x \in IntegerValues }
    /\ vitalsHistory = << >>
    /\ patientConditions = ArrayOf(<< >>)
    /\ Fresh

NextZone == riskCalls = 0 /\ CalculateRiskScore

SpecZone == InitZone /\ [][NextZone]_vars

(* the simulator under its whole API: start, stop, setScenario, the       *)
(* interval timer and the resumption of suspended ticks, in any order     *)
InitSim ==
    /\ reading = << >>
    /\ vitalsHistory = << >>
    /\ patientConditions = ArrayOf(<< >>)
    /\ hasPatient \in BOOLEAN
    /\ Idle

NextSim ==
    \/ tickCount < MaxTicks /\ timerSeq < MaxStarts /\ \E g \in NoiseLevels : StartSimulator(g)
    \/ StopSimulator
    \/ \E name \in ScenarioNames : SetScenario(name)
    \/ tickCount < MaxTicks /\ \E g \in NoiseLevels : TimerTick(g)
    \/ \E outcome \in AIOutcomes : TickResume(outcome)

SpecSim == InitSim /\ [][NextSim]_vars

(* the simulator some readings into a scenario, with no tick suspended    *)
(* and the tables just emptied (step 1 of the guided demo deletes the     *)
(* patient's vitals and alerts), then its whole API for MaxDeep more      *)
(* ticks                                                                  *)
InitSteps ==
    /\ reading = << >>
    /\ vitalsHistory = << >>
    /\ patientConditions = ArrayOf(<< >>)
    /\ hasPatient = TRUE
    /\ Quiet
    /\ activeScenario \in DOMAIN SCENARIOS
    /\ scenarioStep \in 0..(Len(SCENARIOS[activeScenario].steps) - 1)
    /\ readingsSinceSet = scenarioStep
    /\ intervalId = 1
    /\ simPatientId = PatientId
    /\ timers = { 1 }
    /\ timerSeq = 1
    /\ simResult = "started"

NextSteps ==
    \/ tickCount < MaxDeep /\ timerSeq < MaxStarts /\ \E g \in NoiseLevels : StartSimulator(g)
    \/ StopSimulator
    \/ \E name \in ScenarioNames : SetScenario(name)
    \/ tickCount < MaxDeep /\ \E g \in NoiseLevels : TimerTick(g)
    \/ \E outcome \in AIOutcomes : TickResume(outcome)

SpecSteps == InitSteps /\ [][NextSteps]_vars

(* the simulator left running: it is started once, setScenario is called  *)
(* at most once, early enough for a full pass through the longest         *)
(* scenario, and stopSimulator never; timer ticks keep coming, at most    *)
(* MaxOverlap of them suspended at a time, and every suspended tick is    *)
(* resumed.  Every draw of gaussRandom is 0 and every AI request fails:   *)
(* neither has a part in how the scenario advances.                       *)
RunNoise == 0

RunOutcome == "throws"

LongestScenario ==
    CHOOSE n \in { Len(SCENARIOS[name].steps) : name \in DOMAIN SCENARIOS } :
        \A name \in DOMAIN SCENARIOS : Len(SCENARIOS[name].steps) <= n

InitRun ==
    /\ reading = << >>
    /\ vitalsHistory = << >>
    /\ patientConditions = ArrayOf(<< >>)
    /\ hasPatient = TRUE
    /\ Idle

SetScenarioOnce ==
    /\ activeScenario = Null
    /\ readingsSinceSet = tickCount
    /\ tickCount + LongestScenario + 1 <= MaxRun
    /\ \E name \in DOMAIN SCENARIOS : SetScenario(name)

NextTimerTick ==
    /\ tickCount < MaxRun
    /\ Cardinality(ticks) < MaxOverlap
    /\ TimerTick(RunNoise)

NextRun ==
    \/ timerSeq = 0 /\ StartSimulator(RunNoise)
    \/ SetScenarioOnce
    \/ NextTimerTick
    \/ TickResume(RunOutcome)

SpecRun ==
    /\ InitRun
    /\ [][NextRun]_vars
    /\ WF_vars(NextTimerTick)
    /\ WF_vars(TickResume(RunOutcome))

(* the weight lookup alone, over every condition list up to MaxConds *)
(* the evaluator and the scorer on the same one-vital reading, over every  *)
(* value in steps of a tenth from -MaxValue to MaxValue                    *)
TenthValues == (0 - 10 * MaxValue)..(10 * MaxValue)

InitBoth ==
    /\ reading \in { (v :> x) : v \in Vitals, x \in TenthValues }
    /\ vitalsHistory = << >>
    /\ patientConditions = ArrayOf(<< >>)
    /\ Fresh

NextBoth ==
    \/ evalCount = 0 /\ CheckVitalsAndAlertStart
    \/ CheckVitalsAndAlertFinish
    \/ evalCount = 0 /\ CheckVitals
    \/ riskCalls = 0 /\ CalculateRiskScore

SpecBoth == InitBoth /\ [][NextBoth]_vars
InitWeight ==
    /\ reading = << >>
    /\ vitalsHistory = << >>
    /\ patientConditions \in ConditionInputs
    /\ Fresh

NextWeight == ComputeConditionWeights

SpecWeight == InitWeight /\ [][NextWeight]_vars

(***************************************************************************)
(* The device routes and demo steps 1 and 2, with time: the requests come  *)
(* at any second, the setTimeout callbacks run when they are due.  At most *)
(* MaxDevices device rows are created, and no request that emits an event  *)
(* is made once MaxDevEvents events have been emitted.  The server starts  *)
(* with no device, or with one that was paired earlier.                    *)
(***************************************************************************)
DeviceTypeInputs == { "apple_watch", "dexcom", "pager" }

DeviceIdInputs == 1..(MaxDevices + 1)

(* an Apple Watch paired earlier, all the timers of its pairing long run *)
PairedWatch == [ id |-> 1, device_type |-> "apple_watch", status |-> "connected" ]

InitDev ==
    /\ reading = << >>
    /\ vitalsHistory = << >>
    /\ patientConditions = ArrayOf(<< >>)
    /\ Untouched
    /\ SimulatorOff
    /\ \/ /\ hasPatient \in BOOLEAN
          /\ devices = << >>
          /\ nextId = 0
       \/ /\ hasPatient = TRUE
          /\ devices = << PairedWatch >>
          /\ nextId = 1

NextDev ==
    \/ nextId < MaxDevices /\ \E type \in DeviceTypeInputs : Connect(type)
    \/ Len(events) < MaxDevEvents /\ \E deviceId \in DeviceIdInputs : Sync(deviceId)
    \/ Len(events) < MaxDevEvents /\ \E deviceId \in DeviceIdInputs : Disconnect(deviceId)
    \/ DemoStep1
    \/ nextId + Len(DemoDevices) <= MaxDevices /\ Len(events) < MaxDevEvents /\ DemoStep2
    \/ RunTimeout
    \/ clock < MaxClock /\ PassSecond

SpecDev == InitDev /\ [][NextDev]_vars


(***************************************************************************)
(* The life of the alerts table: the database is seeded, the evaluators    *)
(* add alerts for a reading, alerts are acknowledged by id, the unread     *)
(* count is asked for, and demo step 1 empties the table.                  *)
(***************************************************************************)
AckReadings == { [ v \in { "heart_rate" } |-> 1550 ], [ v \in { "heart_rate" } |-> 720 ] }

AlertIdInputs == 1..(Len(ALERT_DEFINITIONS) + MaxEvals + 1)

InitAck ==
    /\ reading \in AckReadings
    /\ vitalsHistory = << >>
    /\ patientConditions = ArrayOf(<< >>)
    /\ hasPatient = FALSE
    /\ Idle

NextAck ==
    \/ SeedDb
    \/ hasPatient /\ CheckVitalsAndAlertStart
    \/ CheckVitalsAndAlertFinish
    \/ hasPatient /\ CheckVitals
    \/ \E alertId \in AlertIdInputs : Acknowledge(alertId)
    \/ UnreadCount
    \/ DemoStep1

SpecAck == InitAck /\ [][NextAck]_vars


(***************************************************************************)
(* Properties.  The helpers below restate the rules in the words of the    *)
(* specification; they do not use the evaluator's own loop.                *)
(***************************************************************************)
StrictMatch(rule, value) ==
    IF rule.direction = "above" THEN value > rule.value ELSE value < rule.value

Rank(type) == IF type = "critical" THEN 2 ELSE 1

RulesOf(fn, v) == IF fn = "checkVitals" THEN CheckerTHRESHOLDS[v] ELSE THRESHOLDS[v]

MatchedRules(fn, v) ==
    IF Present(reading, v)
    THEN { i \in 1..Len(RulesOf(fn, v)) : StrictMatch(RulesOf(fn, v)[i], reading[v]) }
    ELSE {}

AlertsFor(alerts, v) == { j \in 1..Len(alerts) : alerts[j].vital_type = v }

NothingMatches == \A v \in Vitals : MatchedRules("checkVitalsAndAlert", v) = {}

(* C1: every finished evaluation returned at most one alert per vital, and *)
(* for a vital whose value matches some rule exactly one alert, that of    *)
(* the first matching rule in list order, whose severity is the highest    *)
(* among the rules the value matches.                                      *)
Thm_C1_FirstMatchWins ==
    \A k \in 1..Len(returns) : \A v \in Vitals :
        LET alerts == returns[k].alerts
            rules == RulesOf(returns[k].fn, v)
            matched == MatchedRules(returns[k].fn, v)
            mine == AlertsFor(alerts, v)
        IN /\ Cardinality(mine) <= 1
           /\ matched # {} =>
                /\ Cardinality(mine) = 1
                /\ \A j \in mine :
                     LET first == CHOOSE i \in matched : \A i2 \in matched : i <= i2
                     IN /\ alerts[j].title = rules[first].title
                        /\ alerts[j].type = rules[first].type
                        /\ alerts[j].threshold_value = rules[first].value
                        /\ \A i \in matched : Rank(alerts[j].type) >= Rank(rules[i].type)

Wit_C1_HeartRate155 ==
    /\ reading = ("heart_rate" :> 1550)
    /\ Cardinality(MatchedRules("checkVitalsAndAlert", "heart_rate")) = 2
    /\ \E k \in 1..Len(returns) :
         /\ Len(returns[k].alerts) = 1
         /\ returns[k].alerts[1].type = "critical"
         /\ returns[k].alerts[1].title = "Critically High Heart Rate"

(* C2: the comparison is strict both ways: a returned alert never has its  *)
(* value equal to its threshold, an 'exceeds' alert has value > threshold  *)
(* and an 'is below' alert value < threshold; heart_rate 150 gives the     *)
(* warning of the rule above 120, heart_rate 120 and 50 give no alert.     *)
Thm_C2_StrictBoundary ==
    \A k \in 1..Len(returns) :
        LET alerts == returns[k].alerts
        IN /\ \A j \in 1..Len(alerts) :
                /\ alerts[j].vital_value # alerts[j].threshold_value
                /\ alerts[j].message[4] = "exceeds" => alerts[j].vital_value > alerts[j].threshold_value
                /\ alerts[j].message[4] = "is below" => alerts[j].vital_value < alerts[j].threshold_value
           /\ \A v \in Vitals : \A i \in 1..Len(RulesOf(returns[k].fn, v)) :
                (Present(reading, v) /\ reading[v] = RulesOf(returns[k].fn, v)[i].value)
                    => \A j \in AlertsFor(alerts, v) :
                            alerts[j].threshold_value # RulesOf(returns[k].fn, v)[i].value
           /\ reading = ("heart_rate" :> 1500) =>
                /\ Len(alerts) = 1
                /\ alerts[1].type = "warning"
                /\ alerts[1].threshold_value = 1200
           /\ reading \in { ("heart_rate" :> 1200), ("heart_rate" :> 500) } => alerts = << >>

Wit_C2_HeartRate150 ==
    /\ reading = ("heart_rate" :> 1500)
    /\ \E k \in 1..Len(returns) :
         /\ returns[k].fn = "checkVitalsAndAlert"
         /\ Len(returns[k].alerts) = 1
         /\ returns[k].alerts[1].title = "Elevated Heart Rate"

(* C3: when no present vital matches any rule, every evaluation returned   *)
(* the empty list, nothing was persisted, no AI request was made and no    *)
(* 'new-alert' event was emitted.                                          *)
Thm_C3_NoBreachNoEffect ==
    NothingMatches =>
        /\ \A k \in 1..Len(returns) : returns[k].alerts = << >>
        /\ alertStore = << >>
        /\ aiCalls = 0
        /\ events = << >>
        /\ pending = {}

Wit_C3_QuietReading ==
    /\ NothingMatches
    /\ DOMAIN reading # {}
    /\ \E k \in 1..Len(returns) : returns[k].fn = "checkVitalsAndAlert"
    /\ \E k \in 1..Len(returns) : returns[k].fn = "checkVitals"

RECURSIVE FactorScoreSum(_)
FactorScoreSum(fs) == IF Len(fs) = 0 THEN 0 ELSE fs[1].score + FactorScoreSum(Tail(fs))

AbnormalCount(fs) == Cardinality({ k \in 1..Len(fs) : fs[k].zone # "normal" })

Bonus(n) == IF n >= 3 THEN 10 ELSE IF n = 2 THEN 5 ELSE 0

FactorsOf(fs, v) == { k \in 1..Len(fs) : fs[k].vital = v }

ZoneAtZero ==
    [ heart_rate |-> "critical", blood_pressure_systolic |-> "normal",
      blood_pressure_diastolic |-> "normal", glucose |-> "critical",
      oxygen_saturation |-> "critical", temperature |-> "warning" ]

LowRuleVitals == { "heart_rate", "oxygen_saturation" }

(* C4: a scored vital that is absent yields no alert and no factor, and    *)
(* adds nothing to the score or to the out-of-range count; a vital that    *)
(* is present with value 0 is evaluated as the number 0 by both            *)
(* components.                                                             *)
Thm_C4_AbsentSkippedZeroScored ==
    /\ \A v \in Vitals : v \notin DOMAIN reading =>
          /\ \A k \in 1..Len(returns) : AlertsFor(returns[k].alerts, v) = {}
          /\ riskCalls > 0 => FactorsOf(riskResult.factors, v) = {}
    /\ \A v \in Vitals : (v \in DOMAIN reading /\ reading[v] = 0) =>
          /\ \A k \in 1..Len(returns) :
                LET alerts == returns[k].alerts
                IN IF v \in LowRuleVitals
                   THEN \E j \in AlertsFor(alerts, v) :
                            alerts[j].type = "critical" /\ alerts[j].vital_value = 0
                   ELSE AlertsFor(alerts, v) = {}
          /\ riskCalls > 0 =>
                /\ Cardinality(FactorsOf(riskResult.factors, v)) = 1
                /\ \A k \in FactorsOf(riskResult.factors, v) :
                      riskResult.factors[k].zone = ZoneAtZero[v]
    /\ riskCalls > 0 =>
          /\ Len(riskResult.factors) = Cardinality(DOMAIN reading \cap Vitals)
          /\ LET total == FactorScoreSum(riskResult.factors)
                            + Bonus(AbnormalCount(riskResult.factors))
             IN riskResult.overallScore = IF total > 100 THEN 100 ELSE total

Wit_C4_OnlyHeartRateZero ==
    /\ reading = ("heart_rate" :> 0)
    /\ riskCalls > 0
    /\ Len(riskResult.factors) = 1
    /\ riskResult.overallScore = 22
    /\ \E k \in 1..Len(returns) :
         /\ returns[k].fn = "checkVitalsAndAlert"
         /\ Len(returns[k].alerts) = 1
         /\ returns[k].alerts[1].title = "Critically Low Heart Rate"

(* C5: overallScore is an integer between 0 and 100, also when the sum of  *)
(* the factor scores and the compounding bonus is above 100.               *)
Thm_C5_ScoreInRange ==
    riskCalls > 0 =>
        /\ riskResult.overallScore \in Int
        /\ riskResult.overallScore >= 0
        /\ riskResult.overallScore <= 100

Wit_C5_AllWorstClamped ==
    /\ riskCalls > 0
    /\ reading = WorstValues
    /\ Len(vitalsHistory) = 3
    /\ patientConditions = ArrayOf(<< "Heart Disease", "COPD", "Hypertension", "Type 2 Diabetes" >>)
    /\ \A k \in 1..Len(riskResult.factors) : riskResult.factors[k].score >= 25
    /\ \E k \in 1..Len(riskResult.factors) : riskResult.factors[k].score = 30
    /\ FactorScoreSum(riskResult.factors) + 10 > 150
    /\ riskResult.overallScore = 100

(* C6: replacing the value of one vital that is in its normal zone by a    *)
(* value in a non-normal zone, with the same history, conditions and other *)
(* vitals, never gives a smaller overallScore.                             *)
Thm_C6_MonotonicInZone ==
    riskCalls > 0 =>
        \A v \in DOMAIN reading \cap Vitals :
            RISK_SCORING(v, reading[v]).zone = "normal" =>
                \A x \in RiskValues[v] :
                    RISK_SCORING(v, x).zone # "normal" =>
                        calculateRiskScore([ reading EXCEPT ![v] = x ], vitalsHistory,
                                           patientConditions).overallScore
                            >= riskResult.overallScore

Wit_C6_NormalToWorse ==
    /\ riskCalls > 0
    /\ reading = NORMAL_BASELINES
    /\ Len(vitalsHistory) = 3
    /\ riskResult.overallScore > 0
    /\ calculateRiskScore([ reading EXCEPT !["oxygen_saturation"] = 900 ], vitalsHistory,
                          patientConditions).overallScore > riskResult.overallScore

(* C7: the weight of a vital is the largest multiplier that the table      *)
(* gives it for a condition of the list, and 1.0 when there is none: it    *)
(* depends only on the set of known conditions named, and is 1.0 for an    *)
(* empty list and for a value that is not an array.                        *)
NamedConditions ==
    IF patientConditions.isArray
    THEN { patientConditions.items[i] : i \in 1..Len(patientConditions.items) }
    ELSE {}

Multipliers(v) ==
    { CONDITION_WEIGHTS[c][v] :
        c \in { d \in NamedConditions \cap DOMAIN CONDITION_WEIGHTS : v \in DOMAIN CONDITION_WEIGHTS[d] } }

Thm_C7_WeightIsMax ==
    weightResult # NoResult =>
        \A v \in Vitals :
            IF Multipliers(v) = {}
            THEN weightResult[v] = 10
            ELSE /\ weightResult[v] \in Multipliers(v)
                 /\ \A m \in Multipliers(v) : weightResult[v] >= m

Wit_C7_DuplicateAndOverlap ==
    /\ weightResult # NoResult
    /\ patientConditions = ArrayOf(<< "Heart Disease", "COPD", "COPD" >>)
    /\ weightResult["oxygen_saturation"] = 15
    /\ weightResult["heart_rate"] = 15
    /\ weightResult["glucose"] = 10

Thm_C10_CategoryBands ==
    riskCalls > 0 =>
        LET score == riskResult.overallScore
            category == riskResult.category
        IN /\ category = "critical" <=> score >= 80
           /\ category = "high" <=> (score >= 55 /\ score <= 79)
           /\ category = "moderate" <=> (score >= 30 /\ score <= 54)
           /\ category = "low" <=> score < 30

Wit_C10_Score55IsHigh ==
    /\ riskCalls > 0
    /\ riskResult.overallScore = 55
    /\ riskResult.category = "high"

Core(a) ==
    << a.vital_type, a.vital_value, a.threshold_value, a.type, a.title, a.message >>

CoreOf(alerts) == [ j \in 1..Len(alerts) |-> Core(alerts[j]) ]

RECURSIVE Flatten(_)
Flatten(rs) == IF Len(rs) = 0 THEN << >> ELSE rs[1].alerts \o Flatten(Tail(rs))

EngineReturns == SelectSeq(returns, LAMBDA r : r.fn = "checkVitalsAndAlert")

VitalIndex(v) == CHOOSE i \in 1..Len(SCORED_VITALS) : SCORED_VITALS[i] = v

(* C11: the factor list has exactly one record for every scored vital     *)
(* that carries a value in the latest reading and none for anything else  *)
(* (sleep_hours and steps are never factors); it is in descending order   *)
(* of score, and records of equal score are in the order in which the     *)
(* vitals are iterated.                                                    *)
Thm_C11_FactorsExactAndStablySorted ==
    riskCalls > 0 =>
        LET fs == riskResult.factors
        IN /\ \A v \in Vitals :
                Cardinality({ k \in 1..Len(fs) : fs[k].vital = v })
                    = IF v \in DOMAIN reading THEN 1 ELSE 0
           /\ \A k \in 1..Len(fs) : fs[k].vital \in Vitals
           /\ \A k, m \in 1..Len(fs) :
                k < m =>
                    \/ fs[k].score > fs[m].score
                    \/ /\ fs[k].score = fs[m].score
                       /\ VitalIndex(fs[k].vital) < VitalIndex(fs[m].vital)

Wit_C11_TiesKeepVitalOrder ==
    /\ riskCalls > 0
    /\ reading = WorstValues @@ ("sleep_hours" :> 45) @@ ("steps" :> 1200000)
    /\ vitalsHistory = << >>
    /\ patientConditions = ArrayOf(<< >>)
    /\ [ k \in 1..Len(riskResult.factors) |-> riskResult.factors[k].vital ]
          = << "blood_pressure_systolic", "blood_pressure_diastolic", "oxygen_saturation",
               "heart_rate", "glucose", "temperature" >>
    /\ [ k \in 1..Len(riskResult.factors) |-> riskResult.factors[k].score ]
          = << 25, 25, 25, 22, 22, 22 >>

ZeroResult == [ overallScore |-> 0, category |-> "low", factors |-> << >> ]

EmptyReading == \A v \in Vitals : v \notin DOMAIN reading

HistoryValueCount(v) ==
    Cardinality({ i \in 1..Len(vitalsHistory) : v \in DOMAIN vitalsHistory[i] })

MaxMultiplier(v) ==
    IF Multipliers(v) = {} THEN 10
    ELSE CHOOSE m \in Multipliers(v) : \A m2 \in Multipliers(v) : m >= m2

(* zone points times the multiplier (in tenths), rounded half up, at most 25 *)
ExpectedWeightedPoints(v, value) ==
    LET rounded == (RISK_SCORING(v, value).points * MaxMultiplier(v) + 5) \div 10
    IN IF rounded > 25 THEN 25 ELSE rounded

(* C13: a vital with fewer than 2 non-null values in the history (the     *)
(* history may be empty) has trend 'stable' and no trend penalty: its      *)
(* factor score is its weighted zone points.                               *)
Thm_C13_ShortHistoryStable ==
    riskCalls > 0 =>
        \A k \in 1..Len(riskResult.factors) :
            LET f == riskResult.factors[k]
            IN HistoryValueCount(f.vital) < 2 =>
                    /\ f.trend = "stable"
                    /\ f.score = ExpectedWeightedPoints(f.vital, reading[f.vital])

Wit_C13_OneGlucoseValueAmongThreeRows ==
    /\ riskCalls > 0
    /\ reading = WorstValues
    /\ Len(vitalsHistory) = 3
    /\ HistoryValueCount("glucose") = 1
    /\ HistoryValueCount("heart_rate") = 3
    /\ patientConditions = ArrayOf(<< >>)
    /\ \E k \in 1..Len(riskResult.factors) :
         /\ riskResult.factors[k].vital = "glucose"
         /\ riskResult.factors[k].trend = "stable"
         /\ riskResult.factors[k].score = 22
    /\ \E k \in 1..Len(riskResult.factors) :
         /\ riskResult.factors[k].vital = "heart_rate"
         /\ riskResult.factors[k].trend = "worsening"
         /\ riskResult.factors[k].score = 23

ScenarioC == ("blood_pressure_systolic" :> 1850) @@ ("blood_pressure_diastolic" :> 1200)

(* C14: for the latest reading systolic 185 / diastolic 120 with every     *)
(* other vital null, an empty history and no conditions, the result has    *)
(* two factors, both in zone 'crisis' with score 25, the bonus for two     *)
(* out-of-range vitals is 5, overallScore is 55 and the category 'high'.   *)
Thm_C14_ScenarioC ==
    ( /\ riskCalls > 0
      /\ reading = ScenarioC
      /\ vitalsHistory = << >>
      /\ patientConditions = ArrayOf(<< >>) ) =>
        LET fs == riskResult.factors
        IN /\ Len(fs) = 2
           /\ { fs[k].vital : k \in 1..Len(fs) }
                 = { "blood_pressure_systolic", "blood_pressure_diastolic" }
           /\ \A k \in 1..Len(fs) : fs[k].zone = "crisis" /\ fs[k].score = 25
           /\ riskResult.overallScore - FactorScoreSum(fs) = 5
           /\ riskResult.overallScore = 55
           /\ riskResult.category = "high"

Wit_C14_ScenarioCScored ==
    /\ riskCalls > 0
    /\ reading = ScenarioC
    /\ vitalsHistory = << >>
    /\ patientConditions = ArrayOf(<< >>)
    /\ Len(riskResult.factors) = 2
    /\ riskResult.factors[1].explanation = << "in hypertensive crisis (>= 180)", 1850 >>
    /\ riskResult.factors[2].explanation = << "in hypertensive crisis (>= 120)", 1200 >>

AIFailures == { "throws", "unparsable", "no_content" }

BreachingVitals == { v \in Vitals : MatchedRules("checkVitalsAndAlert", v) # {} }

FirstMatched(v) ==
    CHOOSE i \in MatchedRules("checkVitalsAndAlert", v) :
        \A i2 \in MatchedRules("checkVitalsAndAlert", v) : i <= i2

Units ==
    [ heart_rate |-> "BPM", blood_pressure_systolic |-> "mmHg",
      blood_pressure_diastolic |-> "mmHg", glucose |-> "mg/dL",
      oxygen_saturation |-> "%", temperature |-> "degF" ]

TemplatedMessage(v) ==
    LET rule == THRESHOLDS[v][FirstMatched(v)]
    IN << rule.title, reading[v], Units[v],
          IF rule.direction = "above" THEN "exceeds" ELSE "is below",
          rule.value, Units[v] >>

(* C15: whatever the AI step does, a finished checkVitalsAndAlert call     *)
(* returned exactly one alert per vital that breaches a rule, each with    *)
(* the templated message, persisted and emitted; no call was lost to a     *)
(* throw; and when the AI step threw, gave no content or gave content      *)
(* that does not parse, ai_message and emergency_context are null.         *)
Thm_C15_AlertsSurviveAIFailure ==
    /\ thrown = 0
    /\ Len(returns) + Cardinality(pending) = evalCount
    /\ \A k \in 1..Len(returns) :
          returns[k].fn = "checkVitalsAndAlert" =>
            LET alerts == returns[k].alerts
            IN /\ Len(alerts) = Cardinality(BreachingVitals)
               /\ { alerts[j].vital_type : j \in 1..Len(alerts) } = BreachingVitals
               /\ \A j \in 1..Len(alerts) :
                     /\ alerts[j].message = TemplatedMessage(alerts[j].vital_type)
                     /\ alerts[j].type = THRESHOLDS[alerts[j].vital_type][FirstMatched(alerts[j].vital_type)].type
                     /\ \E m \in 1..Len(alertStore) : alertStore[m] = alerts[j]
                     /\ \E m \in 1..Len(events) :
                            events[m].name = "new-alert" /\ events[m].alert = alerts[j]
                     /\ returns[k].ai \in AIFailures =>
                            /\ alerts[j].ai_message = Null
                            /\ alerts[j].emergency_context = Null

Wit_C15_ThrowThenMessages ==
    /\ Len(returns) = 2
    /\ returns[1].ai = "throws"
    /\ returns[2].ai = "messages"
    /\ Len(returns[1].alerts) = 2
    /\ returns[1].alerts[1].type = "critical"
    /\ returns[1].alerts[1].ai_message = Null
    /\ returns[2].alerts[1].ai_message = "ai_text"
    /\ CoreOf(returns[1].alerts) = CoreOf(returns[2].alerts)
    /\ Len(alertStore) = 4
    /\ Len(events) = 4

OutsideNormal ==
    { v \in DOMAIN reading \cap Vitals : RISK_SCORING(v, reading[v]).zone # "normal" }

(* C16: the total is the sum of the factor scores, each the weighted zone  *)
(* points of its vital plus a trend penalty of 0 to 5, plus 10 when three  *)
(* or more present vitals are outside 'normal', 5 when exactly two are     *)
(* and 0 otherwise; overallScore is that total, or 100 when the total is   *)
(* above 100.                                                              *)
Thm_C16_TotalAndCompoundingBonus ==
    riskCalls > 0 =>
        LET fs == riskResult.factors
            n == Cardinality(OutsideNormal)
            bonus == IF n >= 3 THEN 10 ELSE IF n = 2 THEN 5 ELSE 0
            total == FactorScoreSum(fs) + bonus
        IN /\ \A k \in 1..Len(fs) :
                LET penalty == fs[k].score - ExpectedWeightedPoints(fs[k].vital, reading[fs[k].vital])
                IN penalty >= 0 /\ penalty <= 5
           /\ total >= 0
           /\ total <= 100 => riskResult.overallScore = total
           /\ total > 100 => riskResult.overallScore = 100

Wit_C16_ThreeOutsideNormal ==
    /\ riskCalls > 0
    /\ Cardinality(OutsideNormal) = 3
    /\ Len(riskResult.factors) = 6
    /\ riskResult.overallScore < 100
    /\ riskResult.overallScore = FactorScoreSum(riskResult.factors) + 10
    /\ \E k \in 1..Len(riskResult.factors) :
         riskResult.factors[k].score
            > ExpectedWeightedPoints(riskResult.factors[k].vital, reading[riskResult.factors[k].vital])

ScenarioB == ("glucose" :> 2450)

(* C17: the weighted zone points of a vital are min(25, round(zone points  *)
(* x condition weight)): a factor whose trend is not 'worsening' (so that  *)
(* it carries no penalty) has exactly that score and at most 25, and no    *)
(* factor scores above 25 + 5.  For latest glucose 245 with conditions     *)
(* ['Type 2 Diabetes'] and an empty history, the glucose factor is         *)
(* 'critical' (22 base points, 33 weighted) with score 25, there is no     *)
(* compounding bonus and overallScore is 25.                               *)
Thm_C17_WeightedPointsCapped ==
    riskCalls > 0 =>
        LET fs == riskResult.factors
        IN /\ \A k \in 1..Len(fs) :
                /\ fs[k].score <= 30
                /\ fs[k].trend # "worsening" =>
                      /\ fs[k].score <= 25
                      /\ fs[k].score = ExpectedWeightedPoints(fs[k].vital, reading[fs[k].vital])
           /\ ( /\ reading = ScenarioB
                /\ vitalsHistory = << >>
                /\ patientConditions = ArrayOf(<< "Type 2 Diabetes" >>) ) =>
                    /\ Len(fs) = 1
                    /\ fs[1].zone = "critical"
                    /\ RISK_SCORING("glucose", reading["glucose"]).points = 22
                    /\ fs[1].score = 25
                    /\ riskResult.overallScore = 25

Wit_C17_ScenarioBCapped ==
    /\ riskCalls > 0
    /\ reading = ScenarioB
    /\ vitalsHistory = << >>
    /\ patientConditions = ArrayOf(<< "Type 2 Diabetes" >>)
    /\ RISK_SCORING("glucose", reading["glucose"]) = Zone(22, "critical")
    /\ MaxMultiplier("glucose") = 15
    /\ riskResult.factors[1].score = 25
    /\ riskResult.category = "low"

RECURSIVE SumF(_, _)
SumF(f, S) ==
    IF S = {} THEN 0
    ELSE LET i == CHOOSE j \in S : TRUE IN f[i] + SumF(f, S \ {i})

(* the rows of the history that carry a value of v; the position of row i is i - 1 *)
HistoryPoints(v) == { i \in 1..Len(vitalsHistory) : v \in DOMAIN vitalsHistory[i] }

(***************************************************************************)
(* The least-squares slope of the values of v against their positions, as  *)
(* the quotient of the co-deviation by the squared deviation of the        *)
(* positions, both scaled by n^2:                                          *)
(*   sum (n*x - sum x)(n*y - sum y)  /  sum (n*x - sum x)^2                *)
(* The values are in tenths, so the slope in units per position is         *)
(* LsqNum / (10 * LsqDen); it is 0 when LsqDen is 0.                       *)
(***************************************************************************)
LsqNum(v) ==
    LET P == HistoryPoints(v)
        n == Cardinality(P)
        sx == SumF([ i \in P |-> i - 1 ], P)
        sy == SumF([ i \in P |-> vitalsHistory[i][v] ], P)
    IN SumF([ i \in P |-> (n * (i - 1) - sx) * (n * vitalsHistory[i][v] - sy) ], P)

LsqDen(v) ==
    LET P == HistoryPoints(v)
        n == Cardinality(P)
        sx == SumF([ i \in P |-> i - 1 ], P)
    IN SumF([ i \in P |-> (n * (i - 1) - sx) * (n * (i - 1) - sx) ], P)

AbsVal(a) == IF a < 0 THEN 0 - a ELSE a

SlopeBelowHalf(v) == LsqDen(v) = 0 \/ AbsVal(LsqNum(v)) < 5 * LsqDen(v)

ExpectedTrend(v) ==
    IF SlopeBelowHalf(v) THEN "stable"
    ELSE IF v = "oxygen_saturation"
         THEN (IF LsqNum(v) > 0 THEN "improving" ELSE "worsening")
         ELSE (IF LsqNum(v) > 0 THEN "worsening" ELSE "improving")

TrendOf(v) ==
    LET k == CHOOSE j \in 1..Len(riskResult.factors) : riskResult.factors[j].vital = v
    IN riskResult.factors[k].trend

Wit_C18_FallingSlopes ==
    /\ riskCalls > 0
    /\ reading = WorstValues
    /\ Len(vitalsHistory) = 2
    /\ LsqNum("glucose") < 0
    /\ TrendOf("glucose") = "improving"
    /\ LsqNum("oxygen_saturation") > 0
    /\ TrendOf("oxygen_saturation") = "improving"

(* round(min(|slope| / 2, 1) * 5) of the slope LsqNum / (10 * LsqDen) *)
ExpectedPenalty(v) ==
    IF AbsVal(LsqNum(v)) >= 20 * LsqDen(v) THEN 5
    ELSE (AbsVal(LsqNum(v)) + 2 * LsqDen(v)) \div (4 * LsqDen(v))

ScoreOf(v) ==
    LET k == CHOOSE j \in 1..Len(riskResult.factors) : riskResult.factors[j].vital = v
    IN riskResult.factors[k].score

Wit_C19_WorseningOverTwoPoints ==
    /\ riskCalls > 0
    /\ Len(vitalsHistory) = 2
    /\ reading = WorstValues
    /\ patientConditions = ArrayOf(<< >>)
    /\ HistoryValueCount("blood_pressure_diastolic") = 2
    /\ TrendOf("blood_pressure_diastolic") = "worsening"
    /\ ScoreOf("blood_pressure_diastolic") = 25

Below(hi, p, z) == [ kind |-> "below", hi |-> hi, points |-> p, zone |-> z ]
Between(lo, hi, p, z) == [ kind |-> "between", lo |-> lo, hi |-> hi, points |-> p, zone |-> z ]
Above(lo, p, z) == [ kind |-> "above", lo |-> lo, points |-> p, zone |-> z ]

InBand(x, b) ==
    CASE b.kind = "below" -> x <= b.hi
      [] b.kind = "between" -> x >= b.lo /\ x <= b.hi
      [] b.kind = "above" -> x >= b.lo

(* the zone table, in whole units, one band per line of the table *)
ZoneTable ==
    [ heart_rate |->
        { Between(60, 100, 0, "normal"), Between(50, 59, 10, "warning"),
          Between(101, 120, 10, "warning"), Below(49, 22, "critical"),
          Above(121, 22, "critical") },
      blood_pressure_systolic |->
        { Below(119, 0, "normal"), Between(120, 129, 8, "elevated"),
          Between(130, 139, 14, "high"), Between(140, 179, 18, "high"),
          Above(180, 25, "crisis") },
      blood_pressure_diastolic |->
        { Below(79, 0, "normal"), Between(80, 89, 10, "high"),
          Between(90, 119, 16, "high"), Above(120, 25, "crisis") },
      glucose |->
        { Between(70, 140, 0, "normal"), Between(141, 200, 10, "high"),
          Above(201, 22, "critical"), Between(55, 69, 12, "warning"),
          Below(54, 25, "critical") },
      oxygen_saturation |->
        { Above(95, 0, "normal"), Between(90, 94, 12, "low"), Below(89, 25, "critical") },
      temperature |->
        { Between(97, 99, 0, "normal"), Between(100, 103, 10, "fever"),
          Above(104, 22, "critical"), Below(96, 6, "warning") } ]

SharedFields(a) ==
    << a.vital_type, a.type, a.title, a.vital_value, a.threshold_value >>

SharedOf(alerts) == [ j \in 1..Len(alerts) |-> SharedFields(alerts[j]) ]

ReturnsOf(fn) == { i \in 1..Len(returns) : returns[i].fn = fn }

(* C21: for the same reading alertChecker.checkVitals and                  *)
(* alertEngine.checkVitalsAndAlert return alerts for the same vitals, in   *)
(* the same order, with the same type, title, vital_value and              *)
(* threshold_value.                                                        *)
Thm_C21_EvaluatorsAgree ==
    \A i \in ReturnsOf("checkVitals"), j \in ReturnsOf("checkVitalsAndAlert") :
        /\ Len(returns[i].alerts) = Len(returns[j].alerts)
        /\ SharedOf(returns[i].alerts) = SharedOf(returns[j].alerts)

(* both evaluators have returned three alerts for the same reading; the    *)
(* records agree in the shared fields although the message of the heart    *)
(* rate alert differs in the spelling of its unit                          *)
Wit_C21_BothReturnedThreeAlerts ==
    /\ ReturnsOf("checkVitals") # {}
    /\ ReturnsOf("checkVitalsAndAlert") # {}
    /\ \A i \in 1..Len(returns) :
          /\ Len(returns[i].alerts) >= 3
          /\ returns[i].alerts[1].vital_type = "heart_rate"
    /\ \E i \in ReturnsOf("checkVitals"), j \in ReturnsOf("checkVitalsAndAlert") :
          returns[i].alerts[1].message # returns[j].alerts[1].message

(***************************************************************************)
(* The evaluator's rule table against the scorer's zone table.             *)
(***************************************************************************)
AlertRaised ==
    \/ pending # {}
    \/ \E i \in 1..Len(returns) : Len(returns[i].alerts) > 0

EvaluatorDone == pending = {} /\ Len(returns) > 0

(* C22: if the evaluator raises an alert (warning or critical) for a       *)
(* value, the scorer puts the same value in a zone other than 'normal'     *)
(* with more than 0 points; a value that is 'normal' for the scorer        *)
(* raises no alert.                                                        *)
Thm_C22_AlertImpliesAbnormalZone ==
    riskCalls > 0 =>
        \A k \in 1..Len(riskResult.factors) :
            LET f == riskResult.factors[k]
            IN /\ AlertRaised => (f.zone # "normal" /\ f.score > 0)
               /\ (f.zone = "normal" /\ EvaluatorDone) =>
                     \A i \in 1..Len(returns) : returns[i].alerts = << >>

(* temperature 100.5 is just past the evaluator's 100.4: a warning was     *)
(* returned and the scorer has the value in 'fever' with 10 points         *)
Wit_C22_Temperature1005 ==
    /\ reading = ("temperature" :> 1005)
    /\ riskCalls > 0
    /\ Len(returns) > 0
    /\ Len(returns[1].alerts) = 1
    /\ returns[1].alerts[1].type = "warning"
    /\ riskResult.factors[1].zone = "fever"
    /\ riskResult.factors[1].score = 10

(***************************************************************************)
(* The simulator.                                                          *)
(***************************************************************************)
NonRepeating == { n \in DOMAIN SCENARIOS : ~SCENARIOS[n].repeat }

Repeating == { n \in DOMAIN SCENARIOS : SCENARIOS[n].repeat }

NoOverride(row) == \A v \in Vitals : v \notin DOMAIN row.scenario

ReadingGenerated == Len(vitalsStore') = Len(vitalsStore) + 1

LastRow(store) == store[Len(store)]

(* what the claim expects of a reading generated while a scenario is       *)
(* active: the k-th reading since setScenario took effect uses step k      *)
(* (counting from 0, and starting over after the last step of a repeating  *)
(* scenario)                                                               *)
ExpectedStep ==
    LET scenario == SCENARIOS[activeScenario]
    IN scenario.steps[(readingsSinceSet % Len(scenario.steps)) + 1]

ScenarioStillOn ==
    /\ activeScenario \in DOMAIN SCENARIOS
    /\ SCENARIOS[activeScenario].repeat
          \/ readingsSinceSet < Len(SCENARIOS[activeScenario].steps)

StepsInOrder ==
    (ReadingGenerated /\ ScenarioStillOn) =>
        LastRow(vitalsStore').scenario = ExpectedStep

(* C23: after setScenario(name) the readings of the following ticks use    *)
(* the steps of that scenario in order from step 0, each step for exactly  *)
(* one reading, until the scenario ends or is replaced, also when a tick   *)
(* is suspended at its await while setScenario is called and when a tick   *)
(* starts before the previous one has finished.                            *)
Cex_C23_StepsInOrderFromZero == [][StepsInOrder]_vars

(* a tick that read step 0 of bp-crisis was resumed after setScenario put   *)
(* glucose-spike in its place: the next reading would use step 1            *)
Wit_C23_StepZeroSkipped ==
    /\ activeScenario = "glucose-spike"
    /\ scenarioStep = 1
    /\ readingsSinceSet = 0
    /\ ticks = {}
    /\ intervalId # 0

(* C24: scenarioStep is 0 whenever activeScenario is null; otherwise        *)
(* activeScenario is one of the defined scenarios and                       *)
(* 0 <= scenarioStep < the number of its steps.                             *)
Thm_C24_ScenarioStepInRange ==
    IF activeScenario = Null
    THEN scenarioStep = 0
    ELSE /\ activeScenario \in { "glucose-spike", "bp-crisis", "cardiac-warning" }
         /\ scenarioStep >= 0
         /\ scenarioStep < (IF activeScenario = "cardiac-warning" THEN 6 ELSE 5)

(* two overlapping ticks that both read step 3 of glucose-spike have been   *)
(* resumed: the scenario has ended, with two rows of that step stored       *)
Wit_C24_EndedByOverlappingTicks ==
    /\ activeScenario = Null
    /\ scenarioStep = 0
    /\ intervalId # 0
    /\ ticks = {}
    /\ Len(vitalsStore) = 2
    /\ \A k \in 1..2 :
          /\ "glucose" \in DOMAIN vitalsStore[k].scenario
          /\ vitalsStore[k].scenario["glucose"] = 2550

(* setScenario took a simulator that stood at the last step of              *)
(* cardiac-warning to step 0 of glucose-spike                               *)
Wit_C24_SetFromLastStep ==
    /\ activeScenario = "glucose-spike"
    /\ scenarioStep = 0
    /\ tickCount > 0
    /\ "heart_rate" \in DOMAIN LastRow(vitalsStore).scenario
    /\ LastRow(vitalsStore).scenario["heart_rate"] = 480

TimerInvariant ==
    /\ Cardinality(timers) <= 1
    /\ (intervalId # 0) <=> (timers # {})
    /\ \A t \in timers : t = intervalId

AllButSimResult ==
    <<reading, vitalsHistory, patientConditions, alertStore, events, aiCalls,
      pending, returns, evalCount, nextId, thrown, riskResult, riskCalls,
      activeScenario, scenarioStep, weightResult,
      intervalId, simPatientId, timers, timerSeq, hasPatient, ticks, tickCount,
      vitalsStore, readingsSinceSet, devices, deviceTimers, devResult, clock,
      ackResult>>

Answered(result) == simResult' = result /\ simResult # result

StartStopAnswers ==
    /\ Answered("alreadyRunning") => (intervalId # 0 /\ UNCHANGED AllButSimResult)
    /\ Answered("error") => (~hasPatient /\ intervalId' = 0 /\ UNCHANGED AllButSimResult)
    /\ Answered("alreadyStopped") => (intervalId = 0 /\ UNCHANGED AllButSimResult)
    /\ Answered("started") =>
          (intervalId = 0 /\ intervalId' # 0 /\ timers' = { intervalId' }
              /\ tickCount' = tickCount + 1)
    /\ Answered("stopped") => (intervalId # 0 /\ intervalId' = 0 /\ timers' = {})

(* C25: at most one interval timer exists at any time; startSimulator       *)
(* while running answers alreadyRunning and schedules neither a timer nor   *)
(* a tick, startSimulator with no patient answers an error and leaves the   *)
(* simulator stopped, stopSimulator while stopped answers alreadyStopped    *)
(* and changes nothing, and getStatus().running (intervalId !== null) is    *)
(* true iff a timer is scheduled.                                           *)
Thm_C25_OneTimer == [](TimerInvariant) /\ [][StartStopAnswers]_vars

(* a start of the running simulator was answered with alreadyRunning: the   *)
(* one timer of the first start is live and its first tick is the only one  *)
Wit_C25_AlreadyRunning ==
    /\ simResult = "alreadyRunning"
    /\ timerSeq = 1
    /\ intervalId = 1
    /\ timers = { 1 }
    /\ tickCount = 1

(* the simulator was started, stopped and started again: the first timer    *)
(* is gone and the second is live                                           *)
Wit_C25_Restarted ==
    /\ simResult = "started"
    /\ timerSeq = 2
    /\ intervalId = 2
    /\ timers = { 2 }

SimulatorWrites == <<vitalsStore, alertStore, events>>

QuietWhileStopped ==
    (intervalId = 0 /\ intervalId' = 0) => UNCHANGED SimulatorWrites

(* C26: after stopSimulator has returned the simulator inserts no reading,  *)
(* persists no alert and emits no 'vitals-updated' or 'new-alert' event     *)
(* until startSimulator is called again, even if a tick was suspended at    *)
(* its await when stopSimulator was called.                                 *)
Cex_C26_NothingAfterStop == [][QuietWhileStopped]_vars

(* the simulator is stopped and the tick that was suspended at the stop     *)
(* has since stored its alerts and emitted its events                       *)
Wit_C26_AlertsAfterStop ==
    /\ intervalId = 0
    /\ simResult = "stopped"
    /\ ticks = {}
    /\ Len(alertStore) > 0
    /\ Len(events) > Len(alertStore)
    /\ events[Len(events)].name = "vitals-updated"

NoOverrideOnceEnded ==
    (activeScenario = Null /\ ReadingGenerated) => NoOverride(LastRow(vitalsStore'))

RepeatingGoesOn ==
    activeScenario \in Repeating =>
        /\ activeScenario' = activeScenario
        /\ (scenarioStep' # scenarioStep =>
               scenarioStep' = (scenarioStep + 1) % Len(SCENARIOS[activeScenario].steps))

EndsFromLastStep ==
    (activeScenario \in NonRepeating /\ activeScenario' = Null) =>
        (scenarioStep = Len(SCENARIOS[activeScenario].steps) - 1 /\ scenarioStep' = 0)

(* C27: with the simulator left running, every suspended tick resumed and  *)
(* no further setScenario or stopSimulator call, a non-repeating scenario   *)
(* eventually ends (from its last step to activeScenario null with         *)
(* scenarioStep 0) and the readings generated after that carry no scenario  *)
(* override; the repeating scenario never ends by itself and goes from its  *)
(* last step back to step 0.                                                *)
Thm_C27_ScenarioEnds ==
    /\ \A n \in NonRepeating :
          (intervalId # 0 /\ activeScenario = n)
              ~> (activeScenario = Null /\ scenarioStep = 0)
    /\ [][EndsFromLastStep]_vars
    /\ [][NoOverrideOnceEnded]_vars
    /\ [][RepeatingGoesOn]_vars

StepsOf(n) == SCENARIOS[n].steps

(* the five steps of glucose-spike were used in five readings in a row,    *)
(* the scenario has ended and the next reading has no override             *)
Wit_C27_GlucoseSpikeEnded ==
    /\ intervalId # 0
    /\ activeScenario = Null
    /\ scenarioStep = 0
    /\ \E k \in 1..Len(vitalsStore) :
          /\ k + 5 <= Len(vitalsStore)
          /\ \A j \in 1..5 :
                /\ "glucose" \in DOMAIN vitalsStore[k + j - 1].scenario
                /\ vitalsStore[k + j - 1].scenario["glucose"] = StepsOf("glucose-spike")[j]["glucose"]
          /\ NoOverride(vitalsStore[k + 5])

(* cardiac-warning went through its six steps and is back at the first *)
Wit_C27_CardiacWarningWrapped ==
    /\ activeScenario = "cardiac-warning"
    /\ scenarioStep = 0
    /\ readingsSinceSet >= 6
    /\ ticks = {}
    /\ "heart_rate" \in DOMAIN LastRow(vitalsStore).scenario
    /\ LastRow(vitalsStore).scenario["heart_rate"] = 1200

(***************************************************************************)
(* C28 (as stated): once a device has been disconnected through DELETE     *)
(* its status stays 'disconnected'; no later step - a timer of an earlier  *)
(* connect or sync request included - sets it to another status.  Only     *)
(* the DELETE route writes 'disconnected', so a row with that status was   *)
(* disconnected through it.                                                *)
(***************************************************************************)
StatusOf(rows, deviceId) == { rows[i].status : i \in { j \in DOMAIN rows : rows[j].id = deviceId } }

StaysDisconnected ==
    \A i \in DOMAIN devices :
        devices[i].status = "disconnected"
            => StatusOf(devices', devices[i].id) \subseteq { "disconnected" }

Cex_C28_StaysDisconnected == [][StaysDisconnected]_vars

(* a device disconnected during its sync is 'connected' again, by the sync's timer *)
Wit_C28_ConnectedAgainBySync ==
    /\ Len(devices) = 1
    /\ devices[1] = PairedWatch
    /\ clock = 3
    /\ deviceTimers = {}
    /\ \E k \in DOMAIN events : events[k] = DeviceStatusChange(1, "disconnected")
    /\ events[Len(events)] = DeviceStatusChange(1, "connected")

(***************************************************************************)
(* C29 (as stated): for the patient and every device type, at most one     *)
(* row of connected_devices has an active status ('pending', 'syncing',    *)
(* 'connected').                                                           *)
(***************************************************************************)
Cex_C29_OneActivePerType ==
    \A type \in SUPPORTED_DEVICES :
        Cardinality({ i \in DOMAIN devices :
                        devices[i].device_type = type
                        /\ devices[i].status \in { "pending", "syncing", "connected" } }) <= 1

(* the paired watch and the watch of demo step 2 are both active *)
Wit_C29_TwoWatchesAfterStep2 ==
    /\ Len(devices) = 3
    /\ devices[1] = PairedWatch
    /\ devices[2].device_type = "apple_watch"
    /\ devices[2].status = "pending"
    /\ devResult = 200

(***************************************************************************)
(* C30.  As stated: every alert is created with acknowledged = 0, the      *)
(* acknowledge operation sets it to 1 and nothing sets it back; an         *)
(* acknowledge of an acknowledged alert leaves the table unchanged, an     *)
(* acknowledge of an unknown id answers 'Alert not found' and changes      *)
(* nothing, and the unread count is the number of the patient's stored     *)
(* alerts with acknowledged = 0.                                           *)
(* As the code has it: the same, except that the alerts seedDb inserts     *)
(* carry the flag of their definition - three of the six are acknowledged  *)
(* from the start; the alerts the evaluators create start at 0.            *)
(***************************************************************************)
AlertIds(rows) == { rows[i].id : i \in DOMAIN rows }

NewRows == { i \in DOMAIN alertStore' : alertStore'[i].id \notin AlertIds(alertStore) }

FlagOf(rows, id) == { rows[i].acknowledged : i \in { j \in DOMAIN rows : rows[j].id = id } }

Seeding == ~hasPatient /\ hasPatient'

CreatedUnread == \A i \in NewRows : alertStore'[i].acknowledged = 0

SeededWithOwnFlag ==
    Seeding => [ i \in NewRows |-> alertStore'[i].acknowledged ] = [ i \in 1..6 |-> IF i <= 3 THEN 1 ELSE 0 ]

(* a flag changes only from 0 to 1, and only by the acknowledge of its alert *)
AcknowledgeOneWay ==
    \A i \in DOMAIN alertStore :
        LET id == alertStore[i].id
            before == alertStore[i].acknowledged
        IN \A after \in FlagOf(alertStore', id) :
              /\ before = 1 => after = 1
              /\ after # before =>
                    /\ after = 1
                    /\ ackResult' = Answer("acknowledge", 200, "", id, 1, 0)
                    /\ \A j \in DOMAIN alertStore \ {i} : alertStore'[j] = alertStore[j]

AcknowledgeAnswered(status) ==
    /\ ackResult' # ackResult
    /\ ackResult'.route = "acknowledge"
    /\ ackResult'.status = status

AcknowledgedStaysPut ==
    (AcknowledgeAnswered(200) /\ FlagOf(alertStore, ackResult'.alertId) = { 1 })
        => alertStore' = alertStore

UnknownIdNotFound ==
    /\ AcknowledgeAnswered(404) =>
          /\ ackResult'.error = "Alert not found"
          /\ ackResult'.alertId \notin AlertIds(alertStore)
          /\ alertStore' = alertStore
    /\ AcknowledgeAnswered(200) => ackResult'.alertId \in AlertIds(alertStore)

UnreadCountIsStoredUnread ==
    (ackResult' # ackResult /\ ackResult'.route = "unread-count" /\ ackResult'.status = 200)
        => /\ ackResult'.count = Cardinality({ i \in DOMAIN alertStore :
                                                  alertStore[i].patient_id = PatientId
                                                  /\ alertStore[i].acknowledged = 0 })
           /\ alertStore' = alertStore

AcknowledgeRules ==
    /\ AcknowledgeOneWay
    /\ AcknowledgedStaysPut
    /\ UnknownIdNotFound
    /\ UnreadCountIsStoredUnread

C30AsStated == CreatedUnread /\ AcknowledgeRules

C30AsCoded == (~Seeding => CreatedUnread) /\ SeededWithOwnFlag /\ AcknowledgeRules

Cex_C30_EveryAlertCreatedUnread == [][C30AsStated]_vars

Thm_C30_AcknowledgeOneWay == [][C30AsCoded]_vars

(* seeded and evaluator alerts are stored, one of each kind has been       *)
(* acknowledged by request, and the unread count was then answered         *)
Wit_C30_CountAfterAcknowledging ==
    /\ Len(alertStore) = Len(ALERT_DEFINITIONS) + 1
    /\ alertStore[4].acknowledged = 1
    /\ alertStore[7].acknowledged = 1
    /\ alertStore[7].vital_value = 1550
    /\ ackResult = Answer("unread-count", 200, "", 0, 0, 2)

====
